---- MODULE Spec2Model ----
(***************************************************************************)
(* Collaborative canvas: the server-side room registry (RoomManager), the  *)
(* drawing state store (StateManager), the socket gateway that connects    *)
(* them (io.on('connection') handlers) and the client canvas that applies  *)
(* the server's messages to its local stroke list (Canvas historyRef).     *)
(***************************************************************************)
EXTENDS Integers, Sequences, FiniteSets, TLC

(***************************************************************************)
(* Bounds of the model.                                                    *)
(***************************************************************************)
\* paths drawn through the gateway in one behaviour
MaxPaths == 2
\* paths added in one behaviour of the store driven directly
MaxStorePaths == 3
\* Date.now() ranges over 1..MaxTime; 0 stands for a missing timestamp
MaxTime == 2
\* messages in flight to one connection
MaxQueue == 2
\* messages a canvas observed alone is sent in one behaviour
MaxSent == 4

SocketIds == {"s1", "s2"}
RoomIds == {"r1", "r2"}
PathIds == {"p1", "p2"}
\* the room of the clients whose canvases are modelled
SyncRooms == {"r1"}
\* the connections whose canvas is modelled; the others only send events
SyncClients == {"s1"}
\* cursor positions a client may report
Positions == {1, 2}
\* the store never reads path.id: direct calls of the store all use one id
StorePathIds == {"p1"}
\* the room that direct calls of the store create; calls with another room
\* id are calls for a room the store does not know
StoreRooms == {"r1"}
Times == 1..MaxTime

\* JavaScript null
null == [id |-> "null"]

\* JavaScript undefined, as the value of a property an object does not have
undefined == "undefined"

\* obj[key]
field(obj, key) == IF key \in DOMAIN obj THEN obj[key] ELSE undefined

\* { ...obj, ...props }
spread(obj, props) ==
    [k \in DOMAIN obj \cup DOMAIN props |->
        IF k \in DOMAIN props THEN props[k] ELSE obj[k]]

\* the path a canvas sends when a stroke is finished (Canvas startDrawing);
\* points stands for the number of points
Path(id) == [id |-> id, points |-> 1]

\* the payload of the draw event of a client (emit.draw)
DrawData(id) == [path |-> Path(id)]

VARIABLES
    rmRooms,    \* RoomManager.rooms: Map in insertion order, <<[roomId, users]>>
    smRooms,    \* StateManager.rooms: roomId -> [history, undoStack]
    sioRooms,   \* socket.io rooms: roomId -> set of sockets that called socket.join
    conn,       \* socket id -> "new" | "connected" | "disconnected"
    net,        \* socket id -> sequence of server messages not yet delivered
    clientHistory, \* socket id -> Canvas historyRef.current
    nextOid,    \* identity of the next path object to be created
    last,       \* the call or event handled by the last step, with its result
    livePaths,  \* socket id -> Canvas livePathsRef.current: userId -> path
    drawSeen,   \* socket id -> ids of the paths whose 'draw' its canvas has handled
    held,       \* the list a caller of getHistory keeps, and which array it is
    appFlags,   \* socket id -> App's canUndo and canRedo state
    globalRooms \* StateManager.rooms of the variant with global undo and redo

vars == <<rmRooms, smRooms, sioRooms, conn, net, clientHistory, nextOid, last,
          livePaths, drawSeen, held, appFlags, globalRooms>>

\* what the gateway and the network leave alone
aside == <<livePaths, drawSeen, held, appFlags, globalRooms>>

(***************************************************************************)
(* Array helpers (JavaScript arrays are 0-based; sequences are 1-based).   *)
(***************************************************************************)
\* arr.splice(index, 1) : the array without the element at 0-based index
splice(arr, index) ==
    [i \in 1..(Len(arr) - 1) |-> IF i <= index THEN arr[i] ELSE arr[i + 1]]


lastIndexOfUser_searchesFromStart(arr, userId) ==
    LET hits == {i \in 0..(Len(arr) - 1) : arr[i + 1].userId = userId}
    IN  IF hits = {} THEN -1 ELSE CHOOSE i \in hits : \A j \in hits : i <= j

\* for (i = length-1; i >= 0; i--) if (arr[i].userId === userId) { pathIndex = i; break }
lastIndexOfUser(arr, userId) ==
    LET hits == {i \in 0..(Len(arr) - 1) : arr[i + 1].userId = userId}
    IN  IF hits = {} THEN -1 ELSE CHOOSE i \in hits : \A j \in hits : j <= i


filterOutUser_keepsAll(arr, userId) == arr

\* arr.filter(path => path.userId !== userId)
filterOutUser(arr, userId) ==
    SelectSeq(arr, LAMBDA path : path.userId # userId)

\* arr.some(path => path.userId === userId)
someByUser(arr, userId) ==
    \E i \in 1..Len(arr) : arr[i].userId = userId

\* Map.set(key, value) on a map modelled as a function
mapSet(m, key, value) ==
    [k \in DOMAIN m \cup {key} |-> IF k = key THEN value ELSE m[k]]

\* Map.delete(key)
mapDelete(m, key) ==
    [k \in DOMAIN m \ {key} |-> m[k]]

emptyMap == [k \in {} |-> null]

(***************************************************************************)
(* StateManager (per-user variant).  Every operation takes the store map   *)
(* and returns the new map together with the value the method returns.     *)
(***************************************************************************)

smCreateRoom_resetsRoom(sm, roomId) ==
    mapSet(sm, roomId, [history |-> <<>>, undoStack |-> <<>>])

smCreateRoom(sm, roomId) ==
    IF roomId \notin DOMAIN sm
    THEN mapSet(sm, roomId, [history |-> <<>>, undoStack |-> <<>>])
    ELSE sm

addPath_sortsByTime(sm, roomId, path, now) ==
    IF roomId \notin DOMAIN sm
    THEN [rooms |-> sm, ret |-> FALSE]
    ELSE LET room == sm[roomId]
             stamped == IF path.timestamp = 0
                        THEN [path EXCEPT !.timestamp = now] ELSE path
             older == SelectSeq(room.history,
                                LAMBDA p : p.timestamp <= stamped.timestamp)
             newer == SelectSeq(room.history,
                                LAMBDA p : p.timestamp > stamped.timestamp)
         IN  [rooms |-> mapSet(sm, roomId,
                               [history |-> older \o <<stamped>> \o newer,
                                undoStack |-> <<>>]),
              ret |-> TRUE]

addPath_keepsUndoStack(sm, roomId, path, now) ==
    IF roomId \notin DOMAIN sm
    THEN [rooms |-> sm, ret |-> FALSE]
    ELSE LET room == sm[roomId]
             stamped == IF path.timestamp = 0
                        THEN [path EXCEPT !.timestamp = now] ELSE path
         IN  [rooms |-> mapSet(sm, roomId,
                               [history |-> Append(room.history, stamped),
                                undoStack |-> room.undoStack]),
              ret |-> TRUE]

addPath_createsRoom(sm, roomId, path, now) ==
    LET room == IF roomId \in DOMAIN sm THEN sm[roomId]
                ELSE [history |-> <<>>, undoStack |-> <<>>]
        stamped == IF path.timestamp = 0
                   THEN [path EXCEPT !.timestamp = now] ELSE path
    IN  [rooms |-> mapSet(sm, roomId,
                          [history |-> Append(room.history, stamped),
                           undoStack |-> <<>>]),
         ret |-> TRUE]

\* now is the value Date.now() returns if it is called
addPath(sm, roomId, path, now) ==
    IF roomId \notin DOMAIN sm
    THEN [rooms |-> sm, ret |-> FALSE]
    ELSE LET room == sm[roomId]
             stamped == IF path.timestamp = 0
                        THEN [path EXCEPT !.timestamp = now] ELSE path
         IN  [rooms |-> mapSet(sm, roomId,
                               [history |-> Append(room.history, stamped),
                                undoStack |-> <<>>]),
              ret |-> TRUE]

undo_copiesToUndoStack(sm, roomId, userId) ==
    IF roomId \notin DOMAIN sm \/ Len(sm[roomId].history) = 0
    THEN [rooms |-> sm, ret |-> null]
    ELSE LET room == sm[roomId]
             pathIndex == lastIndexOfUser(room.history, userId)
         IN  IF pathIndex = -1
             THEN [rooms |-> sm, ret |-> null]
             ELSE LET path == room.history[pathIndex + 1]
                  IN  [rooms |-> mapSet(sm, roomId,
                                        [history |-> room.history,
                                         undoStack |-> Append(room.undoStack, path)]),
                       ret |-> path]

undo_popsLast(sm, roomId, userId) ==
    IF roomId \notin DOMAIN sm \/ Len(sm[roomId].history) = 0
    THEN [rooms |-> sm, ret |-> null]
    ELSE LET room == sm[roomId]
             path == room.history[Len(room.history)]
         IN  [rooms |-> mapSet(sm, roomId,
                               [history |-> SubSeq(room.history, 1, Len(room.history) - 1),
                                undoStack |-> Append(room.undoStack, path)]),
              ret |-> path]

undo(sm, roomId, userId) ==
    IF roomId \notin DOMAIN sm \/ Len(sm[roomId].history) = 0
    THEN [rooms |-> sm, ret |-> null]
    ELSE LET room == sm[roomId]
             pathIndex == lastIndexOfUser(room.history, userId)
         IN  IF pathIndex = -1
             THEN [rooms |-> sm, ret |-> null]
             ELSE LET path == room.history[pathIndex + 1]
                  IN  [rooms |-> mapSet(sm, roomId,
                                        [history |-> splice(room.history, pathIndex),
                                         undoStack |-> Append(room.undoStack, path)]),
                       ret |-> path]

redo_reinsertsAtFront(sm, roomId, userId) ==
    IF roomId \notin DOMAIN sm \/ Len(sm[roomId].undoStack) = 0
    THEN [rooms |-> sm, ret |-> null]
    ELSE LET room == sm[roomId]
             pathIndex == lastIndexOfUser(room.undoStack, userId)
         IN  IF pathIndex = -1
             THEN [rooms |-> sm, ret |-> null]
             ELSE LET path == room.undoStack[pathIndex + 1]
                  IN  [rooms |-> mapSet(sm, roomId,
                                        [history |-> <<path>> \o room.history,
                                         undoStack |-> splice(room.undoStack, pathIndex)]),
                       ret |-> path]

redo(sm, roomId, userId) ==
    IF roomId \notin DOMAIN sm \/ Len(sm[roomId].undoStack) = 0
    THEN [rooms |-> sm, ret |-> null]
    ELSE LET room == sm[roomId]
             pathIndex == lastIndexOfUser(room.undoStack, userId)
         IN  IF pathIndex = -1
             THEN [rooms |-> sm, ret |-> null]
             ELSE LET path == room.undoStack[pathIndex + 1]
                  IN  [rooms |-> mapSet(sm, roomId,
                                        [history |-> Append(room.history, path),
                                         undoStack |-> splice(room.undoStack, pathIndex)]),
                       ret |-> path]

canUserUndo_anyStroke(sm, roomId, userId) ==
    IF roomId \notin DOMAIN sm THEN FALSE
    ELSE Len(sm[roomId].history) > 0

canUserUndo(sm, roomId, userId) ==
    IF roomId \notin DOMAIN sm THEN FALSE
    ELSE someByUser(sm[roomId].history, userId)

canUserRedo(sm, roomId, userId) ==
    IF roomId \notin DOMAIN sm THEN FALSE
    ELSE someByUser(sm[roomId].undoStack, userId)

getHistory(sm, roomId) ==
    IF roomId \in DOMAIN sm THEN sm[roomId].history ELSE <<>>

getHistoryArray_roomHistory(sm, roomId) ==
    IF roomId \in DOMAIN sm THEN "room.history" ELSE "new"

\* the array object that getHistory returns: [...room.history] and [] are
\* arrays made by the call, not the room's own
getHistoryArray(sm, roomId) ==
    "new"

clearHistory(sm, roomId) ==
    IF roomId \in DOMAIN sm
    THEN mapSet(sm, roomId, [history |-> <<>>, undoStack |-> <<>>])
    ELSE sm

clearUserHistory_historyOnly(sm, roomId, userId) ==
    IF roomId \in DOMAIN sm
    THEN mapSet(sm, roomId,
                [history |-> filterOutUser(sm[roomId].history, userId),
                 undoStack |-> sm[roomId].undoStack])
    ELSE sm

clearUserHistory(sm, roomId, userId) ==
    IF roomId \in DOMAIN sm
    THEN mapSet(sm, roomId,
                [history |-> filterOutUser(sm[roomId].history, userId),
                 undoStack |-> filterOutUser(sm[roomId].undoStack, userId)])
    ELSE sm

getRoomState(sm, roomId) ==
    IF roomId \notin DOMAIN sm THEN null
    ELSE [historySize |-> Len(sm[roomId].history),
          undoStackSize |-> Len(sm[roomId].undoStack),
          canUndo |-> Len(sm[roomId].history) > 0,
          canRedo |-> Len(sm[roomId].undoStack) > 0]

smDeleteRoom_keepsRoom(sm, roomId) ==
    sm

smDeleteRoom(sm, roomId) ==
    IF roomId \in DOMAIN sm THEN mapDelete(sm, roomId) ELSE sm

(***************************************************************************)
(* RoomManager.  rooms is a Map, kept here in insertion order as a         *)
(* sequence of [roomId, users]; users is a Set of socket ids.              *)
(***************************************************************************)
\* this.rooms.has(roomId)
rmHas(rm, roomId) ==
    \E i \in 1..Len(rm) : rm[i].roomId = roomId

\* this.rooms.get(roomId).users, for a room that exists
rmUsers(rm, roomId) ==
    rm[CHOOSE i \in 1..Len(rm) : rm[i].roomId = roomId].users

\* the keys of this.rooms in iteration order
rmKeys(rm) ==
    [i \in 1..Len(rm) |-> rm[i].roomId]

rmCreateRoom(rm, roomId) ==
    IF ~rmHas(rm, roomId)
    THEN Append(rm, [roomId |-> roomId, users |-> {}])
    ELSE rm

rmDeleteRoom(rm, roomId) ==
    IF rmHas(rm, roomId)
    THEN SelectSeq(rm, LAMBDA e : e.roomId # roomId)
    ELSE rm

joinRoom_countsCalls(rm, socketId, roomId) ==
    LET created == rmCreateRoom(rm, roomId)
        rooms == [i \in 1..Len(created) |->
                    IF created[i].roomId = roomId
                    THEN [created[i] EXCEPT !.users = @ \cup {socketId}]
                    ELSE created[i]]
    IN  [rooms |-> rooms,
         ret |-> [roomId |-> roomId,
                  userCount |-> IF rmHas(rm, roomId)
                                THEN Cardinality(rmUsers(rm, roomId)) + 1
                                ELSE 1,
                  users |-> rmUsers(rooms, roomId)]]

joinRoom(rm, socketId, roomId) ==
    LET created == rmCreateRoom(rm, roomId)
        rooms == [i \in 1..Len(created) |->
                    IF created[i].roomId = roomId
                    THEN [created[i] EXCEPT !.users = @ \cup {socketId}]
                    ELSE created[i]]
    IN  [rooms |-> rooms,
         ret |-> [roomId |-> roomId,
                  userCount |-> Cardinality(rmUsers(rooms, roomId)),
                  users |-> rmUsers(rooms, roomId)]]

leaveRoom_keepsEmptyRoom(rm, socketId, roomId) ==
    IF ~rmHas(rm, roomId)
    THEN [rooms |-> rm, ret |-> null]
    ELSE LET removed == [i \in 1..Len(rm) |->
                            IF rm[i].roomId = roomId
                            THEN [rm[i] EXCEPT !.users = @ \ {socketId}]
                            ELSE rm[i]]
         IN  [rooms |-> removed,
              ret |-> [roomId |-> roomId,
                       userCount |-> Cardinality(rmUsers(removed, roomId)),
                       users |-> rmUsers(removed, roomId)]]


leaveRoom_countBeforeRemoval(rm, socketId, roomId) ==
    IF ~rmHas(rm, roomId)
    THEN [rooms |-> rm, ret |-> null]
    ELSE LET removed == [i \in 1..Len(rm) |->
                            IF rm[i].roomId = roomId
                            THEN [rm[i] EXCEPT !.users = @ \ {socketId}]
                            ELSE rm[i]]
         IN  IF Cardinality(rmUsers(removed, roomId)) = 0
             THEN [rooms |-> rmDeleteRoom(removed, roomId),
                   ret |-> [roomId |-> roomId, deleted |-> TRUE, userCount |-> 0]]
             ELSE [rooms |-> removed,
                   ret |-> [roomId |-> roomId,
                            userCount |-> Cardinality(rmUsers(rm, roomId)),
                            users |-> rmUsers(rm, roomId)]]

leaveRoom(rm, socketId, roomId) ==
    IF ~rmHas(rm, roomId)
    THEN [rooms |-> rm, ret |-> null]
    ELSE LET removed == [i \in 1..Len(rm) |->
                            IF rm[i].roomId = roomId
                            THEN [rm[i] EXCEPT !.users = @ \ {socketId}]
                            ELSE rm[i]]
         IN  IF Cardinality(rmUsers(removed, roomId)) = 0
             THEN [rooms |-> rmDeleteRoom(removed, roomId),
                   ret |-> [roomId |-> roomId, deleted |-> TRUE, userCount |-> 0]]
             ELSE [rooms |-> removed,
                   ret |-> [roomId |-> roomId,
                            userCount |-> Cardinality(rmUsers(removed, roomId)),
                            users |-> rmUsers(removed, roomId)]]

\* the loop of leaveAllRooms over the Map's entries, from the i-th key on;
\* a Map iterator skips entries deleted before it reaches them
RECURSIVE leaveAllRoomsFrom(_, _, _, _, _)
leaveAllRoomsFrom(rm, keys, i, socketId, roomsLeft) ==
    IF i > Len(keys)
    THEN [rooms |-> rm, ret |-> roomsLeft]
    ELSE IF rmHas(rm, keys[i]) /\ socketId \in rmUsers(rm, keys[i])
         THEN leaveAllRoomsFrom(leaveRoom(rm, socketId, keys[i]).rooms, keys,
                                i + 1, socketId, Append(roomsLeft, keys[i]))
         ELSE leaveAllRoomsFrom(rm, keys, i + 1, socketId, roomsLeft)

leaveAllRooms_firstRoomOnly(rm, socketId) ==
    LET keys == SelectSeq(rmKeys(rm), LAMBDA k : socketId \in rmUsers(rm, k))
    IN  IF keys = <<>>
        THEN [rooms |-> rm, ret |-> <<>>]
        ELSE [rooms |-> leaveRoom(rm, socketId, keys[1]).rooms, ret |-> <<keys[1]>>]


leaveAllRooms_missesDeletedRooms(rm, socketId) ==
    LET r == leaveAllRoomsFrom(rm, rmKeys(rm), 1, socketId, <<>>)
    IN  [rooms |-> r.rooms,
         ret |-> SelectSeq(r.ret, LAMBDA roomId : rmHas(r.rooms, roomId))]

leaveAllRooms(rm, socketId) ==
    leaveAllRoomsFrom(rm, rmKeys(rm), 1, socketId, <<>>)

getRoomUserCount(rm, roomId) ==
    IF rmHas(rm, roomId) THEN Cardinality(rmUsers(rm, roomId)) ELSE 0

isUserInRoom_roomExists(rm, socketId, roomId) ==
    rmHas(rm, roomId)

isUserInRoom(rm, socketId, roomId) ==
    IF rmHas(rm, roomId) THEN socketId \in rmUsers(rm, roomId) ELSE FALSE

(***************************************************************************)
(* Initial state: both singletons freshly constructed, nobody connected.   *)
(***************************************************************************)

\* Array.from(room.users), or [] for a room the registry does not hold
getRoomUsers(rm, roomId) ==
    IF rmHas(rm, roomId) THEN rmUsers(rm, roomId) ELSE {}

getRoomInfo_unknownIsEmptyRoom(rm, roomId) ==
    IF ~rmHas(rm, roomId)
    THEN [roomId |-> roomId, userCount |-> 0, users |-> {}]
    ELSE [roomId |-> roomId,
          userCount |-> Cardinality(rmUsers(rm, roomId)),
          users |-> rmUsers(rm, roomId)]

\* createdAt and metadata of the result are constants of the room
getRoomInfo(rm, roomId) ==
    IF ~rmHas(rm, roomId)
    THEN null
    ELSE [roomId |-> roomId,
          userCount |-> Cardinality(rmUsers(rm, roomId)),
          users |-> rmUsers(rm, roomId)]

getRoomCount(rm) == Len(rm)

\* the loop of getTotalUserCount over the Map's values, from the i-th on
RECURSIVE totalFrom(_, _, _)
totalFrom(rm, i, total) ==
    IF i > Len(rm) THEN total
    ELSE totalFrom(rm, i + 1, total + Cardinality(rm[i].users))

getTotalUserCount(rm) == totalFrom(rm, 1, 0)

Init ==
    /\ rmRooms = <<>>
    /\ smRooms = emptyMap
    /\ sioRooms = [r \in RoomIds |-> {}]
    /\ conn = [s \in SocketIds |-> "new"]
    /\ net = [s \in SocketIds |-> <<>>]
    /\ clientHistory = [s \in SocketIds |-> <<>>]
    /\ nextOid = 1
    /\ last = [op |-> "init"]
    /\ livePaths = [s \in SocketIds |-> emptyMap]
    /\ drawSeen = [s \in SocketIds |-> {}]
    /\ appFlags = [s \in SocketIds |-> [canUndo |-> FALSE, canRedo |-> FALSE]]
    /\ globalRooms = emptyMap
    /\ held = [list |-> <<>>, array |-> "none", roomId |-> "none"]

(***************************************************************************)
(* The drawing state store driven directly through its methods.            *)
(***************************************************************************)
gatewayVars ==
    <<rmRooms, sioRooms, conn, net, clientHistory, livePaths, drawSeen, appFlags,
      globalRooms>>

StoreCreateRoom(roomId) ==
    /\ smRooms' = smCreateRoom(smRooms, roomId)
    /\ last' = [op |-> "createRoom", roomId |-> roomId]
    /\ UNCHANGED <<gatewayVars, nextOid>>

StoreAddPath(roomId, id, userId, timestamp, now) ==
    /\ nextOid <= MaxStorePaths
    /\ LET path == [oid |-> nextOid, id |-> id, userId |-> userId,
                    timestamp |-> timestamp]
           r == addPath(smRooms, roomId, path, now)
       IN  /\ smRooms' = r.rooms
           /\ nextOid' = IF r.ret THEN nextOid + 1 ELSE nextOid
           /\ last' = [op |-> "addPath", roomId |-> roomId, userId |-> userId,
                       ret |-> r.ret,
                       dropped |-> IF roomId \in DOMAIN smRooms
                                   THEN Len(smRooms[roomId].undoStack) ELSE 0]
    /\ UNCHANGED gatewayVars

StoreUndo(roomId, userId) ==
    /\ LET r == undo(smRooms, roomId, userId)
       IN  /\ smRooms' = r.rooms
           /\ last' = [op |-> "undo", roomId |-> roomId, userId |-> userId,
                       ret |-> r.ret]
    /\ UNCHANGED <<gatewayVars, nextOid>>

StoreRedo(roomId, userId) ==
    /\ LET r == redo(smRooms, roomId, userId)
       IN  /\ smRooms' = r.rooms
           /\ last' = [op |-> "redo", roomId |-> roomId, userId |-> userId,
                       ret |-> r.ret]
    /\ UNCHANGED <<gatewayVars, nextOid>>

StoreClearUserHistory(roomId, userId) ==
    /\ smRooms' = clearUserHistory(smRooms, roomId, userId)
    /\ last' = [op |-> "clearUserHistory", roomId |-> roomId, userId |-> userId,
                removed |-> IF roomId \in DOMAIN smRooms
                            THEN <<Len(smRooms[roomId].history)
                                     - Len(smRooms'[roomId].history),
                                   Len(smRooms[roomId].undoStack)
                                     - Len(smRooms'[roomId].undoStack)>>
                            ELSE <<0, 0>>]
    /\ UNCHANGED <<gatewayVars, nextOid>>

StoreClearHistory(roomId) ==
    /\ smRooms' = clearHistory(smRooms, roomId)
    /\ last' = [op |-> "clearHistory", roomId |-> roomId]
    /\ UNCHANGED <<gatewayVars, nextOid>>

StoreGetHistory(roomId) ==
    /\ last' = [op |-> "getHistory", roomId |-> roomId,
                ret |-> getHistory(smRooms, roomId)]
    /\ UNCHANGED <<gatewayVars, smRooms, nextOid>>

StoreDeleteRoom(roomId) ==
    /\ smRooms' = smDeleteRoom(smRooms, roomId)
    /\ last' = [op |-> "deleteRoom", roomId |-> roomId]
    /\ UNCHANGED <<gatewayVars, nextOid>>

\* addPath reads now only when the path has no timestamp
NextStore ==
    \/ \E roomId \in StoreRooms : StoreCreateRoom(roomId) /\ UNCHANGED held
    \/ \E roomId \in RoomIds, id \in StorePathIds, userId \in SocketIds,
          timestamp \in 0..MaxTime, now \in Times :
            /\ timestamp = 0 \/ now = 1
            /\ StoreAddPath(roomId, id, userId, timestamp, now)
            /\ UNCHANGED held
    \/ \E roomId \in RoomIds, userId \in SocketIds :
            StoreUndo(roomId, userId) /\ UNCHANGED held
    \/ \E roomId \in StoreRooms, userId \in SocketIds :
            StoreRedo(roomId, userId) /\ UNCHANGED held
    \/ \E roomId \in RoomIds, userId \in SocketIds :
            StoreClearUserHistory(roomId, userId) /\ UNCHANGED held
    \/ \E roomId \in StoreRooms : StoreClearHistory(roomId) /\ UNCHANGED held
    \/ \E roomId \in RoomIds : StoreGetHistory(roomId) /\ UNCHANGED held
    \/ \E roomId \in StoreRooms : StoreDeleteRoom(roomId) /\ UNCHANGED held

SpecStore == Init /\ [][NextStore]_vars


(***************************************************************************)
(* The room registry driven directly through its methods.                  *)
(***************************************************************************)
notRegistryVars == <<smRooms, sioRooms, conn, net, clientHistory, nextOid, aside>>

RegJoinRoom(socketId, roomId) ==
    /\ LET r == joinRoom(rmRooms, socketId, roomId)
       IN  /\ rmRooms' = r.rooms
           /\ last' = [op |-> "joinRoom", socketId |-> socketId,
                       roomId |-> roomId, ret |-> r.ret,
                       wasMember |-> \E i \in 1..Len(rmRooms) :
                                        /\ rmRooms[i].roomId = roomId
                                        /\ socketId \in rmRooms[i].users]
    /\ UNCHANGED notRegistryVars

RegLeaveRoom(socketId, roomId) ==
    /\ LET r == leaveRoom(rmRooms, socketId, roomId)
       IN  /\ rmRooms' = r.rooms
           /\ last' = [op |-> "leaveRoom", socketId |-> socketId,
                       roomId |-> roomId, ret |-> r.ret]
    /\ UNCHANGED notRegistryVars

RegLeaveAllRooms(socketId) ==
    /\ LET r == leaveAllRooms(rmRooms, socketId)
       IN  /\ rmRooms' = r.rooms
           /\ last' = [op |-> "leaveAllRooms", socketId |-> socketId,
                       ret |-> r.ret]
    /\ UNCHANGED notRegistryVars


\* the queries: none of them assigns to this.rooms or to a room's users
RegIsUserInRoom(socketId, roomId) ==
    /\ last' = [op |-> "isUserInRoom", socketId |-> socketId, roomId |-> roomId,
                ret |-> isUserInRoom(rmRooms, socketId, roomId)]
    /\ UNCHANGED <<rmRooms, notRegistryVars>>

RegGetRoomUserCount(roomId) ==
    /\ last' = [op |-> "getRoomUserCount", roomId |-> roomId,
                ret |-> getRoomUserCount(rmRooms, roomId)]
    /\ UNCHANGED <<rmRooms, notRegistryVars>>

RegGetRoomUsers(roomId) ==
    /\ last' = [op |-> "getRoomUsers", roomId |-> roomId,
                ret |-> getRoomUsers(rmRooms, roomId)]
    /\ UNCHANGED <<rmRooms, notRegistryVars>>

RegGetRoomInfo(roomId) ==
    /\ last' = [op |-> "getRoomInfo", roomId |-> roomId,
                ret |-> getRoomInfo(rmRooms, roomId)]
    /\ UNCHANGED <<rmRooms, notRegistryVars>>

RegGetRoomCount ==
    /\ last' = [op |-> "getRoomCount", ret |-> getRoomCount(rmRooms)]
    /\ UNCHANGED <<rmRooms, notRegistryVars>>

RegGetTotalUserCount ==
    /\ last' = [op |-> "getTotalUserCount", ret |-> getTotalUserCount(rmRooms)]
    /\ UNCHANGED <<rmRooms, notRegistryVars>>

NextRegistry ==
    \/ \E socketId \in SocketIds, roomId \in RoomIds : RegJoinRoom(socketId, roomId)
    \/ \E socketId \in SocketIds, roomId \in RoomIds : RegLeaveRoom(socketId, roomId)
    \/ \E socketId \in SocketIds : RegLeaveAllRooms(socketId)
    \/ \E socketId \in SocketIds, roomId \in RoomIds : RegIsUserInRoom(socketId, roomId)
    \/ \E roomId \in RoomIds : RegGetRoomUserCount(roomId)
    \/ \E roomId \in RoomIds : RegGetRoomUsers(roomId)
    \/ \E roomId \in RoomIds : RegGetRoomInfo(roomId)
    \/ RegGetRoomCount
    \/ RegGetTotalUserCount

SpecRegistry == Init /\ [][NextRegistry]_vars

(***************************************************************************)
(* The gateway.  Each socket event handler runs to completion; it is an    *)
(* operator from the gateway's state g = [rm, sm, sio] and the event to    *)
(* the new state and to out, the messages it emits to each socket in the   *)
(* order it emits them.                                                    *)
(***************************************************************************)
\* no message for anyone
NoMessages == [c \in SocketIds |-> <<>>]

\* emit msg to every socket of targets
emit(out, targets, msg) ==
    [c \in SocketIds |-> IF c \in targets THEN Append(out[c], msg) ELSE out[c]]


ioTo_everyRoom(sio, roomId) == UNION {sio[r] : r \in RoomIds}

\* io.to(roomId): every socket that joined the socket.io room
ioTo(sio, roomId) == sio[roomId]

\* socket.to(roomId): the room without the sender
socketTo(sio, socketId, roomId) == sio[roomId] \ {socketId}


onJoinRoom_registryOnly(g, socketId, roomId) ==
    LET sio == [g.sio EXCEPT ![roomId] = @ \cup {socketId}]
        joined == joinRoom(g.rm, socketId, roomId)
        roomInfo == joined.ret
        sm == g.sm
        history == getHistory(sm, roomId)
        o1 == emit(NoMessages, {socketId}, [type |-> "history", history |-> history])
        o2 == emit(o1, socketTo(sio, socketId, roomId),
                   [type |-> "user-joined", userId |-> socketId,
                    userCount |-> roomInfo.userCount])
        o3 == emit(o2, {socketId},
                   [type |-> "room-info", roomId |-> roomId,
                    userCount |-> roomInfo.userCount,
                    state |-> getRoomState(sm, roomId)])
    IN  [rm |-> joined.rooms, sm |-> sm, sio |-> sio, out |-> o3, ret |-> roomInfo]

\* socket.on('join-room')
onJoinRoom(g, socketId, roomId) ==
    LET sio == [g.sio EXCEPT ![roomId] = @ \cup {socketId}]
        joined == joinRoom(g.rm, socketId, roomId)
        roomInfo == joined.ret
        sm == smCreateRoom(g.sm, roomId)
        history == getHistory(sm, roomId)
        o1 == emit(NoMessages, {socketId}, [type |-> "history", history |-> history])
        o2 == emit(o1, socketTo(sio, socketId, roomId),
                   [type |-> "user-joined", userId |-> socketId,
                    userCount |-> roomInfo.userCount])
        o3 == emit(o2, {socketId},
                   [type |-> "room-info", roomId |-> roomId,
                    userCount |-> roomInfo.userCount,
                    state |-> getRoomState(sm, roomId)])
    IN  [rm |-> joined.rooms, sm |-> sm, sio |-> sio, out |-> o3, ret |-> roomInfo]

\* a handler that returns at once because the sender is not in the room
rejected(g) ==
    [rm |-> g.rm, sm |-> g.sm, sio |-> g.sio, out |-> NoMessages,
     member |-> FALSE, ret |-> null]

onDraw_clientFieldsWin(g, socketId, roomId, data, oid, now) ==
    IF ~isUserInRoom(g.rm, socketId, roomId)
    THEN rejected(g)
    ELSE LET props == [oid |-> oid, userId |-> socketId, timestamp |-> now]
             pathWithUser == IF "path" \in DOMAIN data
                             THEN spread(props, data.path) ELSE props
             added == addPath(g.sm, roomId, pathWithUser, now)
         IN  [rm |-> g.rm, sm |-> added.rooms, sio |-> g.sio,
              out |-> emit(NoMessages, ioTo(g.sio, roomId),
                           [type |-> "draw", path |-> pathWithUser]),
              member |-> TRUE, ret |-> added.ret]

\* socket.on('draw'): data is the event's payload without its roomId, oid
\* the identity of the new pathWithUser object, now what Date.now() returns;
\* a payload without path spreads nothing into pathWithUser
onDraw(g, socketId, roomId, data, oid, now) ==
    IF ~isUserInRoom(g.rm, socketId, roomId)
    THEN rejected(g)
    ELSE LET props == [oid |-> oid, userId |-> socketId, timestamp |-> now]
             pathWithUser == IF "path" \in DOMAIN data
                             THEN spread(data.path, props) ELSE props
             added == addPath(g.sm, roomId, pathWithUser, now)
         IN  [rm |-> g.rm, sm |-> added.rooms, sio |-> g.sio,
              out |-> emit(NoMessages, ioTo(g.sio, roomId),
                           [type |-> "draw", path |-> pathWithUser]),
              member |-> TRUE, ret |-> added.ret]

onUndo_alwaysEmits(g, socketId, roomId) ==
    IF ~isUserInRoom(g.rm, socketId, roomId)
    THEN rejected(g)
    ELSE LET undone == undo(g.sm, roomId, socketId)
             undonePath == undone.ret
         IN  [rm |-> g.rm, sm |-> undone.rooms, sio |-> g.sio,
              out |-> emit(NoMessages, ioTo(g.sio, roomId),
                           [type |-> "undo", pathId |-> field(undonePath, "id"),
                            userId |-> socketId,
                            canUndo |-> canUserUndo(undone.rooms, roomId, socketId),
                            canRedo |-> canUserRedo(undone.rooms, roomId, socketId)]),
              member |-> TRUE, ret |-> undonePath]


onUndo_flagsBeforeRemoval(g, socketId, roomId) ==
    IF ~isUserInRoom(g.rm, socketId, roomId)
    THEN rejected(g)
    ELSE LET undone == undo(g.sm, roomId, socketId)
             undonePath == undone.ret
         IN  [rm |-> g.rm, sm |-> undone.rooms, sio |-> g.sio,
              out |-> IF undonePath # null
                      THEN emit(NoMessages, ioTo(g.sio, roomId),
                                [type |-> "undo", pathId |-> field(undonePath, "id"),
                                 userId |-> socketId,
                                 canUndo |-> canUserUndo(g.sm, roomId, socketId),
                                 canRedo |-> canUserRedo(g.sm, roomId, socketId)])
                      ELSE NoMessages,
              member |-> TRUE, ret |-> undonePath]

\* socket.on('undo')
onUndo(g, socketId, roomId) ==
    IF ~isUserInRoom(g.rm, socketId, roomId)
    THEN rejected(g)
    ELSE LET undone == undo(g.sm, roomId, socketId)
             undonePath == undone.ret
         IN  [rm |-> g.rm, sm |-> undone.rooms, sio |-> g.sio,
              out |-> IF undonePath # null
                      THEN emit(NoMessages, ioTo(g.sio, roomId),
                                [type |-> "undo", pathId |-> field(undonePath, "id"),
                                 userId |-> socketId,
                                 canUndo |-> canUserUndo(undone.rooms, roomId, socketId),
                                 canRedo |-> canUserRedo(undone.rooms, roomId, socketId)])
                      ELSE NoMessages,
              member |-> TRUE, ret |-> undonePath]


onRedo_broadcastsOnly(g, socketId, roomId) ==
    IF ~isUserInRoom(g.rm, socketId, roomId)
    THEN rejected(g)
    ELSE LET redone == redo(g.sm, roomId, socketId)
             redonePath == redone.ret
         IN  [rm |-> g.rm, sm |-> g.sm, sio |-> g.sio,
              out |-> IF redonePath # null
                      THEN emit(NoMessages, ioTo(g.sio, roomId),
                                [type |-> "redo", path |-> redonePath,
                                 userId |-> socketId,
                                 canUndo |-> canUserUndo(redone.rooms, roomId, socketId),
                                 canRedo |-> canUserRedo(redone.rooms, roomId, socketId)])
                      ELSE NoMessages,
              member |-> TRUE, ret |-> redonePath]

\* socket.on('redo')
onRedo(g, socketId, roomId) ==
    IF ~isUserInRoom(g.rm, socketId, roomId)
    THEN rejected(g)
    ELSE LET redone == redo(g.sm, roomId, socketId)
             redonePath == redone.ret
         IN  [rm |-> g.rm, sm |-> redone.rooms, sio |-> g.sio,
              out |-> IF redonePath # null
                      THEN emit(NoMessages, ioTo(g.sio, roomId),
                                [type |-> "redo", path |-> redonePath,
                                 userId |-> socketId,
                                 canUndo |-> canUserUndo(redone.rooms, roomId, socketId),
                                 canRedo |-> canUserRedo(redone.rooms, roomId, socketId)])
                      ELSE NoMessages,
              member |-> TRUE, ret |-> redonePath]


onClearCanvas_notToSender(g, socketId, roomId) ==
    IF ~isUserInRoom(g.rm, socketId, roomId)
    THEN rejected(g)
    ELSE [rm |-> g.rm, sm |-> clearUserHistory(g.sm, roomId, socketId),
          sio |-> g.sio,
          out |-> emit(NoMessages, socketTo(g.sio, socketId, roomId),
                       [type |-> "clear-canvas", userId |-> socketId]),
          member |-> TRUE]


onClearCanvas_clearsRoom(g, socketId, roomId) ==
    IF ~isUserInRoom(g.rm, socketId, roomId)
    THEN rejected(g)
    ELSE [rm |-> g.rm, sm |-> clearHistory(g.sm, roomId),
          sio |-> g.sio,
          out |-> emit(NoMessages, ioTo(g.sio, roomId),
                       [type |-> "clear-canvas", userId |-> socketId]),
          member |-> TRUE]

\* socket.on('clear-canvas')
onClearCanvas(g, socketId, roomId) ==
    IF ~isUserInRoom(g.rm, socketId, roomId)
    THEN rejected(g)
    ELSE [rm |-> g.rm, sm |-> clearUserHistory(g.sm, roomId, socketId),
          sio |-> g.sio,
          out |-> emit(NoMessages, ioTo(g.sio, roomId),
                       [type |-> "clear-canvas", userId |-> socketId]),
          member |-> TRUE]


onCursorMove_toSenderToo(g, socketId, roomId, position, isDrawing) ==
    IF ~isUserInRoom(g.rm, socketId, roomId)
    THEN rejected(g)
    ELSE [rm |-> g.rm, sm |-> g.sm, sio |-> g.sio,
          out |-> emit(NoMessages, ioTo(g.sio, roomId),
                       [type |-> "cursor-move", userId |-> socketId,
                        position |-> position, isDrawing |-> isDrawing]),
          member |-> TRUE]

\* socket.on('cursor-move')
onCursorMove(g, socketId, roomId, position, isDrawing) ==
    IF ~isUserInRoom(g.rm, socketId, roomId)
    THEN rejected(g)
    ELSE [rm |-> g.rm, sm |-> g.sm, sio |-> g.sio,
          out |-> emit(NoMessages, socketTo(g.sio, socketId, roomId),
                       [type |-> "cursor-move", userId |-> socketId,
                        position |-> position, isDrawing |-> isDrawing]),
          member |-> TRUE]

\* 'drawing-progress': the connection handler registers no listener for the
\* event, so the server does nothing when a client emits it
onDrawingProgress(g, socketId, roomId, path) ==
    [rm |-> g.rm, sm |-> g.sm, sio |-> g.sio, out |-> NoMessages]

\* rooms.forEach of the disconnect handler, from the i-th room on; rm is the
\* registry after leaveAllRooms, sio the socket.io rooms without the socket
RECURSIVE disconnectRooms(_, _, _, _, _, _, _)
disconnectRooms(rooms, i, socketId, rm, sio, sm, out) ==
    IF i > Len(rooms)
    THEN [sm |-> sm, out |-> out]
    ELSE LET roomId == rooms[i]
             userCount == getRoomUserCount(rm, roomId)
             cleared == clearUserHistory(sm, roomId, socketId)
             o1 == emit(out, socketTo(sio, socketId, roomId),
                        [type |-> "clear-canvas", userId |-> socketId])
             o2 == emit(o1, socketTo(sio, socketId, roomId),
                        [type |-> "user-left", userId |-> socketId,
                         userCount |-> userCount])
             sm2 == IF userCount = 0 THEN smDeleteRoom(cleared, roomId)
                    ELSE cleared
         IN  disconnectRooms(rooms, i + 1, socketId, rm, sio, sm2, o2)


onDisconnect_countBeforeLeaving(g, socketId) ==
    LET sio == [r \in RoomIds |-> g.sio[r] \ {socketId}]
        left == leaveAllRooms(g.rm, socketId)
        rooms == left.ret
        done == disconnectRooms(rooms, 1, socketId, g.rm, sio, g.sm,
                                NoMessages)
    IN  [rm |-> left.rooms, sm |-> done.sm, sio |-> sio, out |-> done.out,
         ret |-> rooms]

\* socket.on('disconnect'): socket.io has already taken the socket out of
\* its rooms when the handler runs
onDisconnect(g, socketId) ==
    LET sio == [r \in RoomIds |-> g.sio[r] \ {socketId}]
        left == leaveAllRooms(g.rm, socketId)
        rooms == left.ret
        done == disconnectRooms(rooms, 1, socketId, left.rooms, sio, g.sm,
                                NoMessages)
    IN  [rm |-> left.rooms, sm |-> done.sm, sio |-> sio, out |-> done.out,
         ret |-> rooms]

(***************************************************************************)
(* The client canvas.                                                      *)
(***************************************************************************)
\* historyRef.current.findIndex(p => p.id === pathId), 0-based, -1 if absent
findIndexById(arr, pathId) ==
    LET hits == {i \in 0..(Len(arr) - 1) : field(arr[i + 1], "id") = pathId}
    IN  IF hits = {} THEN -1 ELSE CHOOSE i \in hits : \A j \in hits : i <= j

handleHistory(h, history) == history

\* addPathToHistory
handleDrawEvent(h, path) == Append(h, path)


handleUndoEvent_popsLast(h, data) ==
    IF data.pathId = undefined \/ h = <<>>
    THEN h
    ELSE SubSeq(h, 1, Len(h) - 1)

handleUndoEvent(h, data) ==
    IF data.pathId = undefined
    THEN h
    ELSE LET pathIndex == findIndexById(h, data.pathId)
         IN  IF pathIndex # -1 THEN splice(h, pathIndex) ELSE h

handleRedoEvent(h, data) == Append(h, data.path)

handleClearEvent(h, data) ==
    SelectSeq(h, LAMBDA p : p.userId # data.userId)

\* handleDrawEvent, its effect on the live paths: the author's live path goes
handleDrawEventLive(live, path) ==
    IF field(path, "userId") # undefined /\ path.userId \in DOMAIN live
    THEN mapDelete(live, path.userId)
    ELSE live

\* handleDrawingProgress: the path becomes its author's live path unless it
\* has no author or a path of its id is in the canvas's history
handleDrawingProgress(h, live, path) ==
    IF field(path, "userId") = undefined
    THEN live
    ELSE IF \E i \in 1..Len(h) : field(h[i], "id") = field(path, "id")
         THEN live
         ELSE mapSet(live, path.userId, path)

\* the live paths of a canvas after it has handled the message
handleMessageLive(h, live, msg) ==
    CASE msg.type = "draw" -> handleDrawEventLive(live, msg.path)
      [] msg.type = "drawing-progress" -> handleDrawingProgress(h, live, msg.path)
      [] OTHER -> live

\* the canvas handler that the message's event is wired to (App, useWebSocket)
handleMessage(h, msg) ==
    CASE msg.type = "history" -> handleHistory(h, msg.history)
      [] msg.type = "draw" -> handleDrawEvent(h, msg.path)
      [] msg.type = "undo" -> handleUndoEvent(h, msg)
      [] msg.type = "redo" -> handleRedoEvent(h, msg)
      [] msg.type = "clear-canvas" -> handleClearEvent(h, msg)
      [] OTHER -> h

(***************************************************************************)
(* Events.  Handle(r) installs the gateway state a handler returned; the   *)
(* messages r.out are either delivered out of sight (the gateway is        *)
(* observed alone) or queued on the network for the canvases.              *)
(***************************************************************************)

\* data.canUndo ?? false
orFalse(data, key) == IF key \in DOMAIN data THEN data[key] ELSE FALSE

\* App's listeners on.history, on.draw, on.undo, on.redo and on.clear, their
\* effect on the canUndo and canRedo state of the App of socket socketId
appOn(flags, msg, socketId) ==
    CASE msg.type = "history" ->
            [flags EXCEPT !.canUndo = Len(msg.history) > 0]
      [] msg.type = "draw" -> [canUndo |-> TRUE, canRedo |-> FALSE]
      [] msg.type \in {"undo", "redo"} ->
            [canUndo |-> orFalse(msg, "canUndo"), canRedo |-> orFalse(msg, "canRedo")]
      [] msg.type = "clear-canvas" ->
            IF msg.userId = socketId
            THEN [canUndo |-> FALSE, canRedo |-> FALSE]
            ELSE flags
      [] OTHER -> flags

\* the gateway's state
G == [rm |-> rmRooms, sm |-> smRooms, sio |-> sioRooms]

\* Date.now() in the gateway: a clock that ticks with every path it stamps
DateNow == nextOid

Handle(r) ==
    /\ rmRooms' = r.rm
    /\ smRooms' = r.sm
    /\ sioRooms' = r.sio

\* the queues of the modelled canvases can take the messages out
HasRoom(out) ==
    \A c \in SyncClients : Len(net[c]) + Len(out[c]) <= MaxQueue

\* the messages out join the queues of the modelled canvases
Send(out) ==
    /\ HasRoom(out)
    /\ net' = [c \in SocketIds |->
                IF c \in SyncClients THEN net[c] \o out[c] ELSE net[c]]

\* what became of the last event: "rejected" (the sender is not in the room),
\* "none" (the store had nothing to undo or redo) or "done"
outcome(r) ==
    IF ~r.member THEN "rejected"
    ELSE IF r.ret = null THEN "none" ELSE "done"

\* the same for a handler that has no result from the store
accepted(r) ==
    IF ~r.member THEN "rejected" ELSE "done"

\* io.on('connection')
Connection(socketId) ==
    /\ conn[socketId] = "new"
    /\ conn' = [conn EXCEPT ![socketId] = "connected"]
    /\ last' = [op |-> "event", outcome |-> "done"]
    /\ UNCHANGED <<rmRooms, smRooms, sioRooms, nextOid>>

JoinRoom(socketId, roomId) ==
    /\ conn[socketId] = "connected"
    /\ Handle(onJoinRoom(G, socketId, roomId))
    /\ last' = [op |-> "event", outcome |-> "done"]
    /\ UNCHANGED <<conn, nextOid>>

Draw(socketId, roomId, data) ==
    /\ conn[socketId] = "connected"
    /\ nextOid <= MaxPaths
    /\ LET r == onDraw(G, socketId, roomId, data, nextOid, DateNow)
       IN  /\ Handle(r)
           /\ nextOid' = IF r.member THEN nextOid + 1 ELSE nextOid
           /\ last' = [op |-> "event", outcome |-> accepted(r)]
    /\ UNCHANGED conn

Undo(socketId, roomId) ==
    /\ conn[socketId] = "connected"
    /\ LET r == onUndo(G, socketId, roomId)
       IN  /\ Handle(r)
           /\ last' = [op |-> "event", outcome |-> outcome(r)]
    /\ UNCHANGED <<conn, nextOid>>

Redo(socketId, roomId) ==
    /\ conn[socketId] = "connected"
    /\ LET r == onRedo(G, socketId, roomId)
       IN  /\ Handle(r)
           /\ last' = [op |-> "event", outcome |-> outcome(r)]
    /\ UNCHANGED <<conn, nextOid>>

ClearCanvas(socketId, roomId) ==
    /\ conn[socketId] = "connected"
    /\ LET r == onClearCanvas(G, socketId, roomId)
       IN  /\ Handle(r)
           /\ last' = [op |-> "event", outcome |-> accepted(r)]
    /\ UNCHANGED <<conn, nextOid>>

CursorMove(socketId, roomId, position, isDrawing) ==
    /\ conn[socketId] = "connected"
    /\ LET r == onCursorMove(G, socketId, roomId, position, isDrawing)
       IN  /\ Handle(r)
           /\ last' = [op |-> "event", outcome |-> accepted(r)]
    /\ UNCHANGED <<conn, nextOid>>

\* a client emits 'drawing-progress' (emit.drawingProgress)
DrawingProgress(socketId, roomId, path) ==
    /\ conn[socketId] = "connected"
    /\ Handle(onDrawingProgress(G, socketId, roomId, path))
    /\ last' = [op |-> "event", outcome |-> "unhandled"]
    /\ UNCHANGED <<conn, nextOid>>

Disconnect(socketId) ==
    /\ conn[socketId] = "connected"
    /\ conn' = [conn EXCEPT ![socketId] = "disconnected"]
    /\ LET r == onDisconnect(G, socketId)
       IN  /\ Handle(r)
           /\ last' = [op |-> "disconnect", socketId |-> socketId,
                       rooms |-> r.ret]
    /\ UNCHANGED nextOid

\* the ids a client gives its next stroke: the ids are names that can be
\* exchanged, so the first stroke of a behaviour takes the first of them and
\* every later one repeats it or differs from it
NextPathIds == IF nextOid = 1 THEN {"p1"} ELSE PathIds

\* the gateway observed alone
Next ==
    \/ \E socketId \in SocketIds :
            Connection(socketId) /\ UNCHANGED <<net, clientHistory, aside>>
    \/ \E socketId \in SocketIds, roomId \in RoomIds :
            JoinRoom(socketId, roomId) /\ UNCHANGED <<net, clientHistory, aside>>
    \/ \E socketId \in SocketIds, roomId \in RoomIds, id \in NextPathIds :
            Draw(socketId, roomId, DrawData(id)) /\ UNCHANGED <<net, clientHistory, aside>>
    \/ \E socketId \in SocketIds, roomId \in RoomIds :
            Undo(socketId, roomId) /\ UNCHANGED <<net, clientHistory, aside>>
    \/ \E socketId \in SocketIds, roomId \in RoomIds :
            Redo(socketId, roomId) /\ UNCHANGED <<net, clientHistory, aside>>
    \/ \E socketId \in SocketIds, roomId \in RoomIds :
            ClearCanvas(socketId, roomId) /\ UNCHANGED <<net, clientHistory, aside>>
    \/ \E socketId \in SocketIds, roomId \in RoomIds, position \in Positions :
            CursorMove(socketId, roomId, position, TRUE)
            /\ UNCHANGED <<net, clientHistory, aside>>
    \/ \E socketId \in SocketIds, roomId \in RoomIds, id \in StorePathIds :
            DrawingProgress(socketId, roomId, Path(id))
            /\ UNCHANGED <<net, clientHistory, aside>>
    \/ \E socketId \in SocketIds :
            Disconnect(socketId) /\ UNCHANGED <<net, clientHistory, aside>>

Spec == Init /\ [][Next]_vars

(***************************************************************************)
(* The gateway, the network and the canvases of clients that use one room. *)
(***************************************************************************)
SyncConnection(socketId) ==
    /\ Connection(socketId)
    /\ UNCHANGED <<net, clientHistory, aside>>

\* useWebSocket emits join-room once, when the connection is made
SyncJoinRoom(socketId, roomId) ==
    /\ \A r \in RoomIds : socketId \notin sioRooms[r]
    /\ JoinRoom(socketId, roomId)
    /\ Send(onJoinRoom(G, socketId, roomId).out)
    /\ UNCHANGED <<clientHistory, aside>>

SyncDraw(socketId, roomId, id) ==
    /\ Draw(socketId, roomId, DrawData(id))
    /\ Send(onDraw(G, socketId, roomId, DrawData(id), nextOid, DateNow).out)
    /\ UNCHANGED <<clientHistory, aside>>

SyncUndo(socketId, roomId) ==
    /\ Undo(socketId, roomId)
    /\ Send(onUndo(G, socketId, roomId).out)
    /\ UNCHANGED <<clientHistory, aside>>

SyncRedo(socketId, roomId) ==
    /\ Redo(socketId, roomId)
    /\ Send(onRedo(G, socketId, roomId).out)
    /\ UNCHANGED <<clientHistory, aside>>

SyncClearCanvas(socketId, roomId) ==
    /\ ClearCanvas(socketId, roomId)
    /\ Send(onClearCanvas(G, socketId, roomId).out)
    /\ UNCHANGED <<clientHistory, aside>>

\* nothing more is delivered to a closed connection, and its canvas is gone
SyncDisconnect(socketId) ==
    /\ Disconnect(socketId)
    /\ LET out == onDisconnect(G, socketId).out
       IN  /\ HasRoom([out EXCEPT ![socketId] = <<>>])
           /\ net' = [c \in SocketIds |->
                        IF c = socketId \/ c \notin SyncClients THEN <<>>
                        ELSE net[c] \o out[c]]
    /\ clientHistory' = [clientHistory EXCEPT ![socketId] = <<>>]
    /\ livePaths' = [livePaths EXCEPT ![socketId] = emptyMap]
    /\ drawSeen' = [drawSeen EXCEPT ![socketId] = {}]
    /\ appFlags' = [appFlags EXCEPT ![socketId] =
                        [canUndo |-> FALSE, canRedo |-> FALSE]]
    /\ UNCHANGED <<held, globalRooms>>

\* the client takes one message off its queue and handles it; index 1 is
\* the oldest message, any other index a message that overtakes older ones
Deliver(socketId, index) ==
    /\ conn[socketId] = "connected"
    /\ index \in 1..Len(net[socketId])
    /\ clientHistory' = [clientHistory EXCEPT ![socketId] =
                            handleMessage(@, net[socketId][index])]
    /\ livePaths' = [livePaths EXCEPT ![socketId] =
                        handleMessageLive(clientHistory[socketId], @,
                                          net[socketId][index])]
    /\ drawSeen' = [drawSeen EXCEPT ![socketId] =
                        IF net[socketId][index].type = "draw"
                        THEN @ \cup {field(net[socketId][index].path, "id")}
                        ELSE @]
    /\ appFlags' = [appFlags EXCEPT ![socketId] =
                        appOn(@, net[socketId][index], socketId)]
    /\ net' = [net EXCEPT ![socketId] = splice(@, index - 1)]
    /\ last' = [op |-> "event", outcome |-> "done"]
    /\ UNCHANGED <<rmRooms, smRooms, sioRooms, conn, nextOid, held, globalRooms>>

NextSync ==
    \/ \E socketId \in SocketIds : SyncConnection(socketId)
    \/ \E socketId \in SocketIds, roomId \in SyncRooms : SyncJoinRoom(socketId, roomId)
    \/ \E socketId \in SocketIds, roomId \in SyncRooms, id \in PathIds :
            SyncDraw(socketId, roomId, id)
    \/ \E socketId \in SocketIds, roomId \in SyncRooms : SyncUndo(socketId, roomId)
    \/ \E socketId \in SocketIds, roomId \in SyncRooms : SyncRedo(socketId, roomId)
    \/ \E socketId \in SocketIds, roomId \in SyncRooms : SyncClearCanvas(socketId, roomId)
    \/ \E socketId \in SocketIds : SyncDisconnect(socketId)
    \/ \E socketId \in SocketIds, index \in 1..MaxQueue : Deliver(socketId, index)

SpecSync == Init /\ [][NextSync]_vars

(***************************************************************************)
(* Properties of the drawing state store (checked under SpecStore).        *)
(***************************************************************************)
\* the room's two lists, empty for a room the store does not know
historyOf(sm, roomId) ==
    IF roomId \in DOMAIN sm THEN sm[roomId].history ELSE <<>>

undoStackOf(sm, roomId) ==
    IF roomId \in DOMAIN sm THEN sm[roomId].undoStack ELSE <<>>

\* the path objects of a list
oidsOf(arr) == {arr[i].oid : i \in 1..Len(arr)}

\* the position of the path object oid in arr
posOf(arr, oid) == CHOOSE i \in 1..Len(arr) : arr[i].oid = oid

\* arr without its k-th element (1-based)
without(arr, k) == SubSeq(arr, 1, k - 1) \o SubSeq(arr, k + 1, Len(arr))

\* the paths of arr that both lists hold come in the same order in brr
sameOrder(arr, brr) ==
    \A i, j \in 1..Len(arr) :
        (i < j /\ arr[i].oid \in oidsOf(brr) /\ arr[j].oid \in oidsOf(brr))
            => posOf(brr, arr[i].oid) < posOf(brr, arr[j].oid)

\* no path object is twice in the room's lists
C2_inOneList(sm, roomId) ==
    LET h == historyOf(sm, roomId)
        u == undoStackOf(sm, roomId)
        all == h \o u
    IN  \A i, j \in 1..Len(all) : i < j => all[i].oid # all[j].oid

C2_clears == {"clearUserHistory", "clearHistory", "deleteRoom"}

\* C2 as stated: a stroke accepted by addPath is in exactly one of history
\* and undoStack, and only a clear takes it out of both
C2_OnlyAClearRemoves ==
    [][\A roomId \in StoreRooms :
        LET h == historyOf(smRooms, roomId)
            u == undoStackOf(smRooms, roomId)
            h2 == historyOf(smRooms', roomId)
            u2 == undoStackOf(smRooms', roomId)
        IN  /\ C2_inOneList(smRooms', roomId)
            /\ (last'.op = "addPath" /\ last'.ret /\ last'.roomId = roomId)
                    => nextOid \in oidsOf(h2 \o u2)
            /\ \A oid \in oidsOf(h \o u) \ oidsOf(h2 \o u2) :
                    last'.op \in C2_clears
      ]_vars

\* C2 (amended): a stroke accepted by addPath is in exactly one of history
\* and undoStack, never in both, until a clear removes it or, while it is in
\* the undo stack, a later addPath on the room drops it with the undo stack
C2_ExactlyOneUntilClearedOrDropped ==
    [][\A roomId \in StoreRooms :
        LET h == historyOf(smRooms, roomId)
            u == undoStackOf(smRooms, roomId)
            h2 == historyOf(smRooms', roomId)
            u2 == undoStackOf(smRooms', roomId)
        IN  /\ C2_inOneList(smRooms', roomId)
            /\ (last'.op = "addPath" /\ last'.ret /\ last'.roomId = roomId)
                    => nextOid \in oidsOf(h2 \o u2)
            /\ \A oid \in oidsOf(h \o u) \ oidsOf(h2 \o u2) :
                    \/ last'.op \in C2_clears
                    \/ last'.op = "addPath" /\ last'.ret /\ oid \in oidsOf(u)
      ]_vars

\* an addPath has just dropped an undone stroke while others stay in history
C2_Witness ==
    /\ last.op = "addPath"
    /\ last.ret
    /\ last.dropped > 0
    /\ Len(historyOf(smRooms, last.roomId)) >= 2

\* C3: addPath puts the stroke at the end of history whatever its timestamp,
\* getHistory returns history in that order, and no operation changes the
\* order of two strokes that stay in history
C3_AppendOrder ==
    [][\A roomId \in StoreRooms :
        LET h == historyOf(smRooms, roomId)
            h2 == historyOf(smRooms', roomId)
        IN  /\ (last'.op = "addPath" /\ last'.ret /\ last'.roomId = roomId)
                    => /\ Len(h2) = Len(h) + 1
                       /\ SubSeq(h2, 1, Len(h)) = h
                       /\ h2[Len(h2)].oid = nextOid
            /\ sameOrder(h, h2)
            /\ (last'.op = "getHistory" /\ last'.roomId = roomId)
                    => last'.ret = h /\ h2 = h
      ]_vars

\* getHistory has returned strokes whose timestamps go down in arrival order
C3_Witness ==
    /\ last.op = "getHistory"
    /\ Len(last.ret) >= 2
    /\ \E i \in 1..(Len(last.ret) - 1) :
            /\ last.ret[i].oid < last.ret[i + 1].oid
            /\ last.ret[i].timestamp > last.ret[i + 1].timestamp

\* C4: undo removes the author's stroke of highest index from history,
\* returns it and puts it at the end of the undo stack, the other strokes
\* keeping their order; without a stroke of the author it returns null and
\* changes nothing
C4_UndoLastOfAuthor ==
    [][last'.op = "undo" =>
        LET roomId == last'.roomId
            h == historyOf(smRooms, roomId)
            u == undoStackOf(smRooms, roomId)
            mine == {i \in 1..Len(h) : h[i].userId = last'.userId}
        IN  IF mine = {}
            THEN last'.ret = null /\ smRooms' = smRooms
            ELSE \E k \in mine :
                    /\ \A i \in mine : i <= k
                    /\ last'.ret = h[k]
                    /\ historyOf(smRooms', roomId) = without(h, k)
                    /\ undoStackOf(smRooms', roomId) = Append(u, h[k])
      ]_vars

\* undo has returned a stroke that was not the last of history: a stroke
\* added after it, by another author, is still there
C4_Witness ==
    /\ last.op = "undo"
    /\ last.ret # null
    /\ \E i \in 1..Len(historyOf(smRooms, last.roomId)) :
            /\ historyOf(smRooms, last.roomId)[i].oid > last.ret.oid
            /\ historyOf(smRooms, last.roomId)[i].userId # last.userId
    /\ Len(historyOf(smRooms, last.roomId)) >= 2

\* C5: redo removes the author's stroke of highest index from the undo
\* stack, returns it and makes it the last element of history, the other
\* undone strokes keeping their order; without an undone stroke of the
\* author it returns null and changes nothing
C5_RedoLandsAtEnd ==
    [][last'.op = "redo" =>
        LET roomId == last'.roomId
            h == historyOf(smRooms, roomId)
            u == undoStackOf(smRooms, roomId)
            mine == {i \in 1..Len(u) : u[i].userId = last'.userId}
        IN  IF mine = {}
            THEN last'.ret = null /\ smRooms' = smRooms
            ELSE \E k \in mine :
                    /\ \A i \in mine : i <= k
                    /\ last'.ret = u[k]
                    /\ historyOf(smRooms', roomId) = Append(h, u[k])
                    /\ undoStackOf(smRooms', roomId) = without(u, k)
      ]_vars

\* redo has put a stroke behind a stroke that was added after it, and has
\* left another author's undone stroke in the undo stack
C5_Witness ==
    /\ last.op = "redo"
    /\ last.ret # null
    /\ LET h == historyOf(smRooms, last.roomId)
       IN  /\ Len(h) >= 2
           /\ h[Len(h)] = last.ret
           /\ h[Len(h) - 1].oid > last.ret.oid
    /\ undoStackOf(smRooms, last.roomId) # <<>>

\* C6: after a successful addPath the room's undo stack is empty, no user
\* can redo, and a redo that follows returns null and leaves the store as
\* it is
C6_AddPathClearsRedo ==
    [][/\ (last'.op = "addPath" /\ last'.ret) =>
            /\ undoStackOf(smRooms', last'.roomId) = <<>>
            /\ last'.roomId \in DOMAIN smRooms'
            /\ \A userId \in SocketIds :
                    /\ ~canUserRedo(smRooms', last'.roomId, userId)
                    /\ redo(smRooms', last'.roomId, userId).ret = null
                    /\ redo(smRooms', last'.roomId, userId).rooms = smRooms'
       /\ (last.op = "addPath" /\ last.ret /\ last'.op = "redo"
           /\ last'.roomId = last.roomId) =>
            /\ last'.ret = null
            /\ smRooms' = smRooms
      ]_vars

\* an addPath by one author has just emptied an undo stack that held a
\* stroke, so the stroke undone before it can no longer be redone
C6_Witness ==
    /\ last.op = "addPath"
    /\ last.ret
    /\ last.dropped > 0
    /\ undoStackOf(smRooms, last.roomId) = <<>>
    /\ \E userId \in SocketIds :
            /\ userId # last.userId
            /\ ~someByUser(historyOf(smRooms, last.roomId), userId)

(***************************************************************************)
(* Properties of the gateway (checked under Spec).                         *)
(***************************************************************************)
\* the users the registry records for the room, read off the registry
membersOf(rm, roomId) ==
    {socketId \in SocketIds :
        \E i \in 1..Len(rm) : rm[i].roomId = roomId /\ socketId \in rm[i].users}

(***************************************************************************)
(* The gateway with draw payloads of every shape, in one room.             *)
(***************************************************************************)
\* a draw payload without path
NoPath == [k \in {} |-> undefined]

\* draw payloads whose path lacks points or has none
Pointless ==
    {[path |-> [id |-> id]] : id \in StorePathIds}
        \cup {[path |-> [id |-> id, points |-> 0]] : id \in StorePathIds}

\* the payloads of draw events: paths as a canvas makes them, paths in which
\* the client put a userId, paths without points, and no path at all
DrawPayloads ==
    {DrawData(id) : id \in StorePathIds}
        \cup {[path |-> spread(Path(id), [userId |-> userId])] :
                id \in StorePathIds, userId \in SocketIds}
        \cup Pointless
        \cup {NoPath}

NextDraw ==
    \/ \E socketId \in SocketIds :
            Connection(socketId) /\ UNCHANGED <<net, clientHistory, aside>>
    \/ \E socketId \in SocketIds, roomId \in SyncRooms :
            JoinRoom(socketId, roomId) /\ UNCHANGED <<net, clientHistory, aside>>
    \/ \E socketId \in SocketIds, roomId \in SyncRooms, data \in DrawPayloads :
            Draw(socketId, roomId, data) /\ UNCHANGED <<net, clientHistory, aside>>
    \/ \E socketId \in SocketIds, roomId \in SyncRooms :
            Undo(socketId, roomId) /\ UNCHANGED <<net, clientHistory, aside>>
    \/ \E socketId \in SocketIds, roomId \in SyncRooms :
            Redo(socketId, roomId) /\ UNCHANGED <<net, clientHistory, aside>>
    \/ \E socketId \in SocketIds :
            Disconnect(socketId) /\ UNCHANGED <<net, clientHistory, aside>>

SpecDraw == Init /\ [][NextDraw]_vars

(***************************************************************************)
(* A canvas observed alone: it is sent the messages of a room by a server  *)
(* that forwards stroke progress, and handles them in any order.           *)
(***************************************************************************)
\* the other users of the room, whose strokes the canvas is told about
Authors == SocketIds \ SyncClients

\* a stroke as the server tags it
Tagged(id, userId) == spread(Path(id), [userId |-> userId])

CanvasMessages ==
    {[type |-> "draw", path |-> Tagged(id, userId)] :
        id \in PathIds, userId \in Authors}
    \cup {[type |-> "drawing-progress", path |-> Tagged(id, userId)] :
            id \in PathIds, userId \in Authors}
    \cup {[type |-> "drawing-progress", path |-> Path(id)] : id \in PathIds}
    \cup {[type |-> "undo", pathId |-> id] : id \in PathIds}
    \cup {[type |-> "clear-canvas", userId |-> userId] : userId \in Authors}

\* the server emits a message to the canvas
ServerSends(socketId, msg) ==
    /\ conn[socketId] = "connected"
    /\ nextOid <= MaxSent
    /\ Len(net[socketId]) < MaxQueue
    /\ net' = [net EXCEPT ![socketId] = Append(@, msg)]
    /\ nextOid' = nextOid + 1
    /\ last' = [op |-> "event", outcome |-> "sent"]
    /\ UNCHANGED <<rmRooms, smRooms, sioRooms, conn, clientHistory, aside>>

NextCanvas ==
    \/ \E socketId \in SyncClients : SyncConnection(socketId)
    \/ \E socketId \in SyncClients, msg \in CanvasMessages :
            ServerSends(socketId, msg)
    \/ \E socketId \in SyncClients, index \in 1..MaxQueue :
            Deliver(socketId, index)

SpecCanvas == Init /\ [][NextCanvas]_vars

(***************************************************************************)
(* The store and a caller that keeps the list getHistory returned, and     *)
(* changes it.                                                             *)
(***************************************************************************)
\* the caller's list and the room's history are one array
shared(roomId) == held.array = "room.history" /\ held.roomId = roomId

\* what a method of the store that works on the room does to the caller's
\* list: nothing, unless the list is the room's history array; then it
\* shows what push and splice did, and stays behind when the method gives
\* the room a new array
Follow(roomId, inPlace) ==
    held' = IF ~shared(roomId) THEN held
            ELSE IF inPlace /\ roomId \in DOMAIN smRooms'
                 THEN [held EXCEPT !.list = smRooms'[roomId].history]
                 ELSE [held EXCEPT !.array = "old"]

\* the caller calls getHistory and keeps the list
HoldHistory(roomId) ==
    /\ held' = [list |-> getHistory(smRooms, roomId),
                array |-> getHistoryArray(smRooms, roomId),
                roomId |-> roomId]
    /\ last' = [op |-> "getHistory", roomId |-> roomId,
                ret |-> getHistory(smRooms, roomId)]
    /\ UNCHANGED <<gatewayVars, smRooms, nextOid>>

\* what the caller may do to its list: remove the last element, add an
\* element of its own, reverse the list
callerChanges(list) ==
    {SubSeq(list, 1, Len(list) - 1), Append(list, null),
     [i \in 1..Len(list) |-> list[Len(list) + 1 - i]]}

\* the caller changes the list it has just got; the change shows in the
\* room's history when the two are one array
CallerMutates(list) ==
    /\ last.op = "getHistory"
    /\ list # held.list
    /\ held' = [held EXCEPT !.list = list]
    /\ smRooms' = IF shared(held.roomId) /\ held.roomId \in DOMAIN smRooms
                  THEN [smRooms EXCEPT ![held.roomId].history = list]
                  ELSE smRooms
    /\ last' = [op |-> "callerMutation", roomId |-> held.roomId]
    /\ UNCHANGED <<gatewayVars, nextOid>>

NextSnapshot ==
    \/ \E roomId \in StoreRooms : StoreCreateRoom(roomId) /\ Follow(roomId, TRUE)
    \/ \E roomId \in StoreRooms, id \in StorePathIds, userId \in SocketIds :
            StoreAddPath(roomId, id, userId, 1, 1) /\ Follow(roomId, TRUE)
    \/ \E roomId \in StoreRooms, userId \in SocketIds :
            StoreUndo(roomId, userId) /\ Follow(roomId, TRUE)
    \/ \E roomId \in StoreRooms, userId \in SocketIds :
            StoreRedo(roomId, userId) /\ Follow(roomId, TRUE)
    \/ \E roomId \in StoreRooms, userId \in SocketIds :
            StoreClearUserHistory(roomId, userId) /\ Follow(roomId, FALSE)
    \/ \E roomId \in StoreRooms : StoreDeleteRoom(roomId) /\ Follow(roomId, FALSE)
    \/ \E roomId \in RoomIds : HoldHistory(roomId)
    \/ \E list \in callerChanges(held.list) : CallerMutates(list)

SpecSnapshot == Init /\ [][NextSnapshot]_vars

\* the handler's result leaves registry, store and socket.io rooms as they
\* are and sends nothing
C7_noEffect(r) ==
    /\ r.rm = rmRooms
    /\ r.sm = smRooms
    /\ r.sio = sioRooms
    /\ r.out = NoMessages

\* C7: a draw, undo, redo, clear-canvas or cursor-move request for a room
\* from a connection the registry does not record in that room changes
\* nothing and sends no message
C7_NonMemberRequestDropped ==
    \A socketId \in SocketIds, roomId \in RoomIds :
        socketId \notin membersOf(rmRooms, roomId) =>
            /\ \A id \in PathIds :
                 C7_noEffect(onDraw(G, socketId, roomId, DrawData(id),
                                    nextOid, DateNow))
            /\ C7_noEffect(onUndo(G, socketId, roomId))
            /\ C7_noEffect(onRedo(G, socketId, roomId))
            /\ C7_noEffect(onClearCanvas(G, socketId, roomId))
            /\ \A position \in Positions :
                 C7_noEffect(onCursorMove(G, socketId, roomId, position, TRUE))

\* a request has just been dropped although the room it may have named
\* holds a stroke and has a member besides the connected non-member
C7_Witness ==
    /\ last.op = "event"
    /\ last.outcome = "rejected"
    /\ \E socketId \in SocketIds, roomId \in RoomIds :
            /\ conn[socketId] = "connected"
            /\ socketId \notin membersOf(rmRooms, roomId)
            /\ membersOf(rmRooms, roomId) # {}
            /\ historyOf(smRooms, roomId) # <<>>

\* what each socket receives is exactly one message of the type, when it
\* is in the socket.io room, and nothing otherwise
C8_oneToRoom(out, roomId, type) ==
    \A c \in SocketIds :
        IF c \in sioRooms[roomId]
        THEN Len(out[c]) = 1 /\ out[c][1].type = type
        ELSE out[c] = <<>>

\* C8: the undo (redo) handler sends an 'undo' ('redo') message to the room
\* exactly when the store's undo (redo) returned a stroke; when the store
\* returned null it sends nothing and the store is as before
C8_MessageIffStrokeReturned ==
    \A socketId \in SocketIds, roomId \in RoomIds :
        socketId \in membersOf(rmRooms, roomId) =>
            /\ LET r == onUndo(G, socketId, roomId)
                   stored == undo(smRooms, roomId, socketId)
               IN  /\ r.sm = stored.rooms
                   /\ IF stored.ret # null
                      THEN /\ C8_oneToRoom(r.out, roomId, "undo")
                           /\ \A c \in sioRooms[roomId] :
                                r.out[c][1].pathId = stored.ret.id
                      ELSE r.out = NoMessages /\ r.sm = smRooms
            /\ LET r == onRedo(G, socketId, roomId)
                   stored == redo(smRooms, roomId, socketId)
               IN  /\ r.sm = stored.rooms
                   /\ IF stored.ret # null
                      THEN /\ C8_oneToRoom(r.out, roomId, "redo")
                           /\ \A c \in sioRooms[roomId] :
                                r.out[c][1].path = stored.ret
                      ELSE r.out = NoMessages /\ r.sm = smRooms

\* a member's undo or redo has just found nothing to act on in a room that
\* holds another member's stroke
C8_Witness ==
    /\ last.op = "event"
    /\ last.outcome = "none"
    /\ \E socketId \in SocketIds, roomId \in RoomIds :
            /\ socketId \in membersOf(rmRooms, roomId)
            /\ undo(smRooms, roomId, socketId).ret = null
            /\ historyOf(smRooms, roomId) # <<>>

\* C9: when a connection that belongs to rooms disconnects, it is a member
\* of no room afterwards, no stroke of its in history or undo stack of those
\* rooms is left, the strokes of other authors in those rooms are still
\* there in the same order, and each room it leaves empty is deleted from
\* registry and store
C9_DisconnectCleansEveryRoom ==
    \A socketId \in SocketIds :
        LET r == onDisconnect(G, socketId)
            mine == {roomId \in RoomIds : socketId \in membersOf(rmRooms, roomId)}
        IN  /\ \A roomId \in RoomIds : socketId \notin membersOf(r.rm, roomId)
            /\ \A roomId \in RoomIds : socketId \notin r.sio[roomId]
            /\ \A roomId \in mine :
                /\ ~someByUser(historyOf(r.sm, roomId), socketId)
                /\ ~someByUser(undoStackOf(r.sm, roomId), socketId)
                /\ historyOf(r.sm, roomId)
                     = SelectSeq(historyOf(smRooms, roomId),
                                 LAMBDA p : p.userId # socketId)
                /\ undoStackOf(r.sm, roomId)
                     = SelectSeq(undoStackOf(smRooms, roomId),
                                 LAMBDA p : p.userId # socketId)
                /\ IF membersOf(rmRooms, roomId) = {socketId}
                   THEN /\ \A i \in 1..Len(r.rm) : r.rm[i].roomId # roomId
                        /\ roomId \notin DOMAIN r.sm
                   ELSE /\ membersOf(r.rm, roomId)
                             = membersOf(rmRooms, roomId) \ {socketId}
                        /\ roomId \in DOMAIN r.sm
            /\ \A roomId \in RoomIds \ mine :
                /\ membersOf(r.rm, roomId) = membersOf(rmRooms, roomId)
                /\ historyOf(r.sm, roomId) = historyOf(smRooms, roomId)
                /\ undoStackOf(r.sm, roomId) = undoStackOf(smRooms, roomId)

\* a connection that was in both rooms has just disconnected: the room it
\* shared is still there with the other member's stroke, the room it was
\* alone in is deleted, and a stroke of its own has gone
C9_Witness ==
    /\ last.op = "disconnect"
    /\ Len(last.rooms) = 2
    /\ \E roomId \in RoomIds :
            /\ membersOf(rmRooms, roomId) # {}
            /\ historyOf(smRooms, roomId) # <<>>
            /\ Len(historyOf(smRooms, roomId)) + Len(undoStackOf(smRooms, roomId))
                    < nextOid - 1
            /\ \A other \in RoomIds \ {roomId} :
                    /\ other \notin DOMAIN smRooms
                    /\ membersOf(rmRooms, other) = {}

(***************************************************************************)
(* Properties of the registry (checked under SpecRegistry).                *)
(***************************************************************************)
\* C10: joinRoom for a socket that is already a member of the room leaves
\* the registry as it is and returns the room's unchanged member count and
\* members
C10_JoinRoomIdempotent ==
    [][(last'.op = "joinRoom"
        /\ last'.socketId \in membersOf(rmRooms, last'.roomId)) =>
            /\ rmRooms' = rmRooms
            /\ last'.ret.roomId = last'.roomId
            /\ last'.ret.userCount
                 = Cardinality(membersOf(rmRooms, last'.roomId))
            /\ last'.ret.users = membersOf(rmRooms, last'.roomId)
      ]_vars

\* a member of a room with two members has just joined it again
C10_Witness ==
    /\ last.op = "joinRoom"
    /\ last.wasMember
    /\ last.ret.userCount = 2

(***************************************************************************)
(* Properties of gateway and canvas together (checked under SpecSync).     *)
(***************************************************************************)
\* C1: once every message sent has been delivered, the canvas of a
\* connected member shows the strokes of the server's history of its room,
\* in the same order
C1_CanvasesConverge ==
    \A socketId \in SyncClients, roomId \in SyncRooms :
        (/\ conn[socketId] = "connected"
         /\ socketId \in membersOf(rmRooms, roomId)
         /\ \A c \in SocketIds : net[c] = <<>>)
            => clientHistory[socketId] = getHistory(smRooms, roomId)

(***************************************************************************)
(* More properties of the registry (checked under SpecRegistry).           *)
(***************************************************************************)
\* the room ids the registry holds
roomsOf(rm) == {rm[i].roomId : i \in 1..Len(rm)}

\* C11: every room the registry holds has a member; a join of a room it does
\* not hold creates the room with the joiner as its member, and the leave of
\* a room's only member removes the room
C11_NoRoomWithoutMember ==
    [][/\ \A i \in 1..Len(rmRooms') : rmRooms'[i].users # {}
       /\ \A roomId \in RoomIds :
            Cardinality({i \in 1..Len(rmRooms') : rmRooms'[i].roomId = roomId}) <= 1
       /\ (last'.op = "joinRoom" /\ last'.roomId \notin roomsOf(rmRooms)) =>
            /\ roomsOf(rmRooms') = roomsOf(rmRooms) \cup {last'.roomId}
            /\ membersOf(rmRooms', last'.roomId) = {last'.socketId}
       /\ (last'.op = "leaveRoom"
           /\ membersOf(rmRooms, last'.roomId) = {last'.socketId}) =>
            /\ roomsOf(rmRooms') = roomsOf(rmRooms) \ {last'.roomId}
            /\ last'.ret.userCount = 0
       /\ \A roomId \in RoomIds :
            (last'.op = "leaveAllRooms"
             /\ membersOf(rmRooms, roomId) = {last'.socketId}) =>
                roomId \notin roomsOf(rmRooms')
      ]_vars

\* the only member of a room has just left it and the room is gone, while
\* the other room is still there
C11_Witness ==
    /\ last.op = "leaveRoom"
    /\ last.ret # null
    /\ last.ret.userCount = 0
    /\ last.roomId \notin roomsOf(rmRooms)
    /\ rmRooms # <<>>

(***************************************************************************)
(* More properties of the gateway (checked under Spec).                    *)
(***************************************************************************)
\* C12: when the last member of a room disconnects, the store holds no
\* history and no undo stack for the room id any more, and the connection
\* that joins the room id next is sent an empty history; no room without
\* members has state in the store
C12_EmptyRoomKeepsNoState ==
    /\ \A roomId \in RoomIds :
        membersOf(rmRooms, roomId) = {} => roomId \notin DOMAIN smRooms
    /\ \A socketId \in SocketIds, roomId \in RoomIds :
        membersOf(rmRooms, roomId) = {socketId} =>
            LET d == onDisconnect(G, socketId)
                g == [rm |-> d.rm, sm |-> d.sm, sio |-> d.sio]
            IN  /\ roomId \notin DOMAIN d.sm
                /\ roomId \notin roomsOf(d.rm)
                /\ \A next \in SocketIds \ {socketId} :
                    LET j == onJoinRoom(g, next, roomId)
                    IN  /\ j.out[next][1]
                            = [type |-> "history", history |-> <<>>]
                        /\ j.sm[roomId] = [history |-> <<>>, undoStack |-> <<>>]

\* the last member of a room in which strokes were drawn has just
\* disconnected, the room is gone, and another connection is there to join
C12_Witness ==
    /\ last.op = "disconnect"
    /\ nextOid > 1
    /\ \E i \in 1..Len(last.rooms) :
            /\ membersOf(rmRooms, last.rooms[i]) = {}
            /\ last.rooms[i] \notin DOMAIN smRooms
    /\ \A roomId \in RoomIds : historyOf(smRooms, roomId) = <<>>
    /\ \E next \in SocketIds : conn[next] = "connected"

(***************************************************************************)
(* Properties of the draw handler (checked under SpecDraw).                *)
(***************************************************************************)
\* C13: for a draw request of a member, the stroke appended to history has
\* the sender's connection id as its author whatever userId the payload's
\* path holds, and every member of the room, the sender too, is sent that
\* stroke in one 'draw' message; nobody else is sent anything
C13_DrawTaggedWithSender ==
    \A socketId \in SocketIds, roomId \in RoomIds, data \in DrawPayloads :
        socketId \in membersOf(rmRooms, roomId) =>
            LET r == onDraw(G, socketId, roomId, data, nextOid, DateNow)
                h == historyOf(smRooms, roomId)
                h2 == historyOf(r.sm, roomId)
            IN  /\ Len(h2) = Len(h) + 1
                /\ SubSeq(h2, 1, Len(h)) = h
                /\ h2[Len(h2)].userId = socketId
                /\ \A c \in SocketIds :
                    IF c \in membersOf(rmRooms, roomId)
                    THEN r.out[c] = <<[type |-> "draw", path |-> h2[Len(h2)]]>>
                    ELSE r.out[c] = <<>>

\* a draw has been handled, both connections are members of a room, and a
\* draw of one of them whose path names the other as userId is stored and
\* sent to both with the sender as author
C13_Witness ==
    /\ last.op = "event"
    /\ last.outcome = "done"
    /\ \E roomId \in RoomIds, socketId \in SocketIds, userId \in SocketIds :
        /\ userId # socketId
        /\ membersOf(rmRooms, roomId) = {socketId, userId}
        /\ historyOf(smRooms, roomId) # <<>>
        /\ LET data == [path |-> spread(Path("p1"), [userId |-> userId])]
               r == onDraw(G, socketId, roomId, data, nextOid, DateNow)
           IN  /\ data.path.userId = userId
               /\ r.out[userId] = r.out[socketId]
               /\ r.out[userId][1].path.userId = socketId

\* C16: a draw request of a member whose payload has no path, or a path
\* without points, is rejected: history and undo stack stay as they are and
\* no message is sent
C16_MalformedDrawRejected ==
    \A socketId \in SocketIds, roomId \in RoomIds,
       data \in Pointless \cup {NoPath} :
        socketId \in membersOf(rmRooms, roomId) =>
            LET r == onDraw(G, socketId, roomId, data, nextOid, DateNow)
            IN  /\ r.sm = smRooms
                /\ r.out = NoMessages

(***************************************************************************)
(* Stroke progress (checked under Spec).                                   *)
(***************************************************************************)
\* C14: a 'drawing-progress' request of a member of a room is forwarded to
\* every other member of the room and not to the sender, and changes
\* neither history nor undo stack
C14_ProgressForwardedToOthers ==
    \A socketId \in SocketIds, roomId \in RoomIds, id \in PathIds :
        socketId \in membersOf(rmRooms, roomId) =>
            LET r == onDrawingProgress(G, socketId, roomId, Path(id))
            IN  /\ r.sm = smRooms
                /\ r.out[socketId] = <<>>
                /\ \A c \in membersOf(rmRooms, roomId) \ {socketId} :
                    /\ Len(r.out[c]) = 1
                    /\ r.out[c][1].type = "drawing-progress"

(***************************************************************************)
(* Properties of the canvas (checked under SpecCanvas).                    *)
(***************************************************************************)
\* C15: a progress message that the canvas handles after the 'draw' message
\* of the same stroke never makes the stroke a live path, whether the
\* stroke is still in the canvas's history or was undone or cleared since
C15_LateProgressNeverShown ==
    [][\A c \in SyncClients :
        \A userId \in DOMAIN livePaths'[c] :
            (\/ userId \notin DOMAIN livePaths[c]
             \/ livePaths'[c][userId] # livePaths[c][userId])
                => field(livePaths'[c][userId], "id") \notin drawSeen[c]
      ]_vars

(***************************************************************************)
(* More properties of the drawing state store (checked under SpecStore).   *)
(***************************************************************************)
\* C17: addPath for a room id the store does not know returns false, makes
\* no room and leaves every room as it is; for a room it knows it returns
\* true and history is the history before with the new stroke at its end
C17_AddPathNeedsRoom ==
    [][last'.op = "addPath" =>
        IF last'.roomId \notin DOMAIN smRooms
        THEN /\ last'.ret = FALSE
             /\ smRooms' = smRooms
             /\ nextOid' = nextOid
        ELSE LET h == smRooms[last'.roomId].history
                 h2 == smRooms'[last'.roomId].history
             IN  /\ last'.ret = TRUE
                 /\ DOMAIN smRooms' = DOMAIN smRooms
                 /\ Len(h2) = Len(h) + 1
                 /\ SubSeq(h2, 1, Len(h)) = h
                 /\ h2[Len(h2)].oid = nextOid
                 /\ h2[Len(h2)].userId = last'.userId
      ]_vars

\* addPath for an unknown room id has just returned false while the room
\* the store knows holds a stroke and an undone stroke
C17_Witness ==
    /\ last.op = "addPath"
    /\ last.ret = FALSE
    /\ last.roomId \notin DOMAIN smRooms
    /\ \E roomId \in DOMAIN smRooms :
            /\ smRooms[roomId].history # <<>>
            /\ smRooms[roomId].undoStack # <<>>

\* C18: canUserUndo is true exactly when history holds a stroke of the
\* author and canUserRedo exactly when the undo stack does, so both are
\* false for an unknown room; undo and redo return a stroke exactly when
\* canUserUndo and canUserRedo are true before the call
C18_CanUndoIffOwnStroke ==
    \A roomId \in RoomIds, userId \in SocketIds :
        LET h == historyOf(smRooms, roomId)
            u == undoStackOf(smRooms, roomId)
        IN  /\ canUserUndo(smRooms, roomId, userId)
                <=> \E i \in 1..Len(h) : h[i].userId = userId
            /\ canUserRedo(smRooms, roomId, userId)
                <=> \E i \in 1..Len(u) : u[i].userId = userId
            /\ (undo(smRooms, roomId, userId).ret # null)
                <=> canUserUndo(smRooms, roomId, userId)
            /\ (redo(smRooms, roomId, userId).ret # null)
                <=> canUserRedo(smRooms, roomId, userId)
            /\ roomId \notin DOMAIN smRooms =>
                /\ ~canUserUndo(smRooms, roomId, userId)
                /\ ~canUserRedo(smRooms, roomId, userId)

\* an undo has just returned null for an author without a stroke in a
\* history that holds another author's stroke, and that author cannot redo
\* although the undo stack is filled
C18_Witness ==
    /\ last.op = "undo"
    /\ last.ret = null
    /\ historyOf(smRooms, last.roomId) # <<>>
    /\ undoStackOf(smRooms, last.roomId) # <<>>
    /\ ~canUserUndo(smRooms, last.roomId, last.userId)
    /\ ~canUserRedo(smRooms, last.roomId, last.userId)

\* C19: clearUserHistory takes every stroke of the author out of history
\* and undo stack, leaves the strokes of the other authors in both in their
\* order, changes nothing for an unknown room, and changes nothing when it
\* is applied again
C19_ClearUserHistoryFilters ==
    [][last'.op = "clearUserHistory" =>
        LET roomId == last'.roomId
            userId == last'.userId
            others(arr) == SelectSeq(arr, LAMBDA p : p.userId # userId)
        IN  /\ DOMAIN smRooms' = DOMAIN smRooms
            /\ roomId \notin DOMAIN smRooms => smRooms' = smRooms
            /\ historyOf(smRooms', roomId) = others(historyOf(smRooms, roomId))
            /\ undoStackOf(smRooms', roomId) = others(undoStackOf(smRooms, roomId))
            /\ \A i \in 1..Len(historyOf(smRooms', roomId)) :
                    historyOf(smRooms', roomId)[i].userId # userId
            /\ \A i \in 1..Len(undoStackOf(smRooms', roomId)) :
                    undoStackOf(smRooms', roomId)[i].userId # userId
            /\ clearUserHistory(smRooms', roomId, userId) = smRooms'
      ]_vars

\* clearUserHistory has just removed a stroke of an author from each list
\* and another author's stroke stays
C19_Witness ==
    /\ last.op = "clearUserHistory"
    /\ last.removed[1] >= 1
    /\ last.removed[2] >= 1
    /\ historyOf(smRooms, last.roomId) \o undoStackOf(smRooms, last.roomId) # <<>>

(***************************************************************************)
(* Properties of getHistory's result (checked under SpecSnapshot).         *)
(***************************************************************************)
\* C20: getHistory returns the room's history as it is at the call, an
\* empty list for an unknown room, and creates no room; elements the caller
\* adds to the list, removes from it or reorders in it leave the store's
\* history as it is, and what the store does later leaves the list as it is
C20_GetHistorySnapshot ==
    [][/\ last'.op = "getHistory" =>
            /\ held'.list = historyOf(smRooms, last'.roomId)
            /\ last'.roomId \notin DOMAIN smRooms => held'.list = <<>>
            /\ smRooms' = smRooms
       /\ last'.op = "callerMutation" =>
            /\ held'.list # held.list
            /\ smRooms' = smRooms
       /\ last'.op \notin {"getHistory", "callerMutation"} =>
            held'.list = held.list
      ]_vars

\* the caller has just changed the list it got for a room with strokes, and
\* the room's history is not what the caller's list has become
C20_Witness ==
    /\ last.op = "callerMutation"
    /\ historyOf(smRooms, last.roomId) # <<>>
    /\ held.list # historyOf(smRooms, last.roomId)
    /\ Len(held.list) = Len(historyOf(smRooms, last.roomId))

(***************************************************************************)
(* The contracts of the registry's methods (checked under SpecRegistry).   *)
(***************************************************************************)
\* C21: leaveRoom of an unknown room returns null and changes nothing; of a
\* known room it removes the member from that room only, and either no
\* member remains, the room is gone and the result is deleted with
\* userCount 0, or the room stays and the result is the remaining count and
\* member list
C21_LeaveRoomContract ==
    [][last'.op = "leaveRoom" =>
        LET roomId == last'.roomId
            ret == last'.ret
            remaining == membersOf(rmRooms, roomId) \ {last'.socketId}
        IN  IF roomId \notin roomsOf(rmRooms)
            THEN ret = null /\ rmRooms' = rmRooms
            ELSE /\ ret # null
                 /\ \A other \in RoomIds \ {roomId} :
                        /\ membersOf(rmRooms', other) = membersOf(rmRooms, other)
                        /\ other \in roomsOf(rmRooms') <=> other \in roomsOf(rmRooms)
                 /\ membersOf(rmRooms', roomId) = remaining
                 /\ (remaining = {}) <=> (roomId \notin roomsOf(rmRooms'))
                 /\ (remaining = {}) <=> ("deleted" \in DOMAIN ret)
                 /\ IF remaining = {}
                    THEN ret = [roomId |-> roomId, deleted |-> TRUE, userCount |-> 0]
                    ELSE ret = [roomId |-> roomId,
                                userCount |-> Cardinality(remaining),
                                users |-> remaining]
      ]_vars

\* one of the two members of a room has just left it: the room stays and
\* the result names the member who remains
C21_Witness ==
    /\ last.op = "leaveRoom"
    /\ last.ret # null
    /\ last.ret.userCount = 1
    /\ last.socketId \notin last.ret.users
    /\ membersOf(rmRooms, last.roomId) = last.ret.users

\* C22: leaveAllRooms returns each room the member was in just before the
\* call, once, and no other room, also the rooms that the call deletes
\* because the member was the last one in them; afterwards the member is in
\* no room and every other connection is in the rooms it was in before
C22_LeaveAllRoomsReturnsOwnRooms ==
    [][last'.op = "leaveAllRooms" =>
        LET socketId == last'.socketId
            ret == last'.ret
            mine == {roomId \in RoomIds : socketId \in membersOf(rmRooms, roomId)}
        IN  /\ {ret[i] : i \in 1..Len(ret)} = mine
            /\ Len(ret) = Cardinality(mine)
            /\ \A roomId \in RoomIds :
                 membersOf(rmRooms', roomId) = membersOf(rmRooms, roomId) \ {socketId}
            /\ roomsOf(rmRooms')
                 = {roomId \in roomsOf(rmRooms) :
                        membersOf(rmRooms, roomId) # {socketId}}
      ]_vars

\* a member of both rooms has just left them all: the room it was alone in
\* is deleted and still in the result, the room it shared stays with the
\* other member
C22_Witness ==
    /\ last.op = "leaveAllRooms"
    /\ Len(last.ret) = 2
    /\ Cardinality(roomsOf(rmRooms)) = 1
    /\ \E roomId \in roomsOf(rmRooms) :
            membersOf(rmRooms, roomId) = SocketIds \ {last.socketId}

(***************************************************************************)
(* The messages of the gateway's handlers (checked under Spec).            *)
(***************************************************************************)
\* C23: the disconnect handler run for a connection that is in no room
\* changes neither registry nor store and sends nothing, and so does a
\* second run for a connection right after its first; the first run sends to
\* each remaining member of each room the connection was in a clear-canvas
\* with the leaver's id followed by a user-left with the number of members
\* that remain, and nothing to anyone else
C23_DisconnectOnceOnly ==
    \A socketId \in SocketIds :
        LET r == onDisconnect(G, socketId)
            again == onDisconnect([rm |-> r.rm, sm |-> r.sm, sio |-> r.sio], socketId)
            mine == {roomId \in RoomIds : socketId \in membersOf(rmRooms, roomId)}
            remaining(roomId) == membersOf(rmRooms, roomId) \ {socketId}
            clear == [type |-> "clear-canvas", userId |-> socketId]
            userLeft(roomId) == [type |-> "user-left", userId |-> socketId,
                                 userCount |-> Cardinality(remaining(roomId))]
        IN  /\ mine = {} =>
                /\ r.rm = rmRooms
                /\ r.sm = smRooms
                /\ r.out = NoMessages
            /\ again.rm = r.rm
            /\ again.sm = r.sm
            /\ again.out = NoMessages
            /\ \A c \in SocketIds :
                LET both == {roomId \in mine : c \in remaining(roomId)}
                IN  /\ Len(r.out[c]) = 2 * Cardinality(both)
                    /\ \A roomId \in both :
                         \E i \in 1..(Len(r.out[c]) - 1) :
                            /\ i % 2 = 1
                            /\ r.out[c][i] = clear
                            /\ r.out[c][i + 1] = userLeft(roomId)

\* a connection has just disconnected from a room that another member stays
\* in, with a stroke of that member still in the history; the connection is
\* in no room any more
C23_Witness ==
    /\ last.op = "disconnect"
    /\ Len(last.rooms) = 1
    /\ membersOf(rmRooms, last.rooms[1]) = SocketIds \ {last.socketId}
    /\ historyOf(smRooms, last.rooms[1]) # <<>>
    /\ \A roomId \in RoomIds : last.socketId \notin sioRooms[roomId]

\* C24: the join-room handler makes the sender a member of the room; the
\* sender is sent a history message with the room's history as it is and
\* then a room-info with the number of members after the join, every other
\* member is sent one user-joined with that number, the sender is sent no
\* user-joined, nobody else is sent anything, and the history and undo
\* stack the room has are kept
C24_JoinRoomMessages ==
    \A socketId \in SocketIds, roomId \in RoomIds :
        LET r == onJoinRoom(G, socketId, roomId)
            members == membersOf(rmRooms, roomId) \cup {socketId}
            userCount == Cardinality(members)
        IN  /\ membersOf(r.rm, roomId) = members
            /\ roomId \in DOMAIN r.sm
            /\ historyOf(r.sm, roomId) = historyOf(smRooms, roomId)
            /\ undoStackOf(r.sm, roomId) = undoStackOf(smRooms, roomId)
            /\ Len(r.out[socketId]) = 2
            /\ r.out[socketId][1] = [type |-> "history",
                                     history |-> historyOf(smRooms, roomId)]
            /\ r.out[socketId][2].type = "room-info"
            /\ r.out[socketId][2].roomId = roomId
            /\ r.out[socketId][2].userCount = userCount
            /\ \A c \in members \ {socketId} :
                    r.out[c] = <<[type |-> "user-joined", userId |-> socketId,
                                  userCount |-> userCount]>>
            /\ \A c \in SocketIds \ members : r.out[c] = <<>>

\* a room has one member, a stroke in its history and one in its undo stack,
\* and the other connection is connected and can join it
C24_Witness ==
    /\ last.op = "event"
    /\ last.outcome = "done"
    /\ \E socketId \in SocketIds, roomId \in RoomIds :
            /\ conn[socketId] = "connected"
            /\ membersOf(rmRooms, roomId) = SocketIds \ {socketId}
            /\ historyOf(smRooms, roomId) # <<>>
            /\ undoStackOf(smRooms, roomId) # <<>>
            /\ onJoinRoom(G, socketId, roomId).out[socketId][1].history
                    = historyOf(smRooms, roomId)

\* C25: an undo message names the id of the one stroke the undo took out of
\* history, the sender as actor, and as canUndo and canRedo what the store
\* answers for the sender once the stroke is out; a redo message holds the
\* whole stroke the redo put back into history, the sender as actor, and the
\* two flags as the store answers once the stroke is back
C25_UndoRedoMessageContents ==
    \A socketId \in SocketIds, roomId \in RoomIds :
        LET u == onUndo(G, socketId, roomId)
            r == onRedo(G, socketId, roomId)
            before == historyOf(smRooms, roomId)
            removed == {i \in 1..Len(before) :
                            before[i].oid \notin oidsOf(historyOf(u.sm, roomId))}
            after == historyOf(r.sm, roomId)
            restored == {i \in 1..Len(after) : after[i].oid \notin oidsOf(before)}
        IN  /\ \A c \in SocketIds : \A k \in 1..Len(u.out[c]) :
                LET msg == u.out[c][k]
                IN  /\ msg.type = "undo"
                    /\ Cardinality(removed) = 1
                    /\ \A i \in removed : msg.pathId = before[i].id
                    /\ msg.userId = socketId
                    /\ msg.canUndo = canUserUndo(u.sm, roomId, socketId)
                    /\ msg.canRedo = canUserRedo(u.sm, roomId, socketId)
                    /\ msg.canUndo = someByUser(historyOf(u.sm, roomId), socketId)
                    /\ msg.canRedo = someByUser(undoStackOf(u.sm, roomId), socketId)
            /\ \A c \in SocketIds : \A k \in 1..Len(r.out[c]) :
                LET msg == r.out[c][k]
                IN  /\ msg.type = "redo"
                    /\ Cardinality(restored) = 1
                    /\ \A i \in restored : msg.path = after[i]
                    /\ msg.path \in {undoStackOf(smRooms, roomId)[i] :
                                        i \in 1..Len(undoStackOf(smRooms, roomId))}
                    /\ msg.userId = socketId
                    /\ msg.canUndo = canUserUndo(r.sm, roomId, socketId)
                    /\ msg.canRedo = canUserRedo(r.sm, roomId, socketId)
                    /\ msg.canUndo = someByUser(historyOf(r.sm, roomId), socketId)
                    /\ msg.canRedo = someByUser(undoStackOf(r.sm, roomId), socketId)

\* a stroke has been undone and a member has a stroke in history and one in
\* the undo stack: its undo is answered with canUndo false and canRedo true,
\* its redo with canUndo true and canRedo false
C25_Witness ==
    /\ last.op = "event"
    /\ last.outcome = "done"
    /\ \E socketId \in SocketIds, roomId \in RoomIds :
            /\ socketId \in membersOf(rmRooms, roomId)
            /\ someByUser(historyOf(smRooms, roomId), socketId)
            /\ someByUser(undoStackOf(smRooms, roomId), socketId)
            /\ LET u == onUndo(G, socketId, roomId).out[socketId]
                   r == onRedo(G, socketId, roomId).out[socketId]
               IN  /\ Len(u) = 1 /\ ~u[1].canUndo /\ u[1].canRedo
                   /\ Len(r) = 1 /\ r[1].canUndo /\ ~r[1].canRedo

\* C26: the clear-canvas handler run for a member of the room leaves in the
\* room's history and undo stack the strokes of the other authors, in their
\* order, and none of the sender's, and sends one clear-canvas with the
\* sender's id to every member of the room, the sender too, and to nobody
\* else, whether or not the sender had strokes
C26_ClearCanvasOwnStrokes ==
    \A socketId \in SocketIds, roomId \in RoomIds :
        socketId \in membersOf(rmRooms, roomId) =>
            LET r == onClearCanvas(G, socketId, roomId)
                notMine(p) == p.userId # socketId
            IN  /\ historyOf(r.sm, roomId)
                     = SelectSeq(historyOf(smRooms, roomId), notMine)
                /\ undoStackOf(r.sm, roomId)
                     = SelectSeq(undoStackOf(smRooms, roomId), notMine)
                /\ r.rm = rmRooms
                /\ \A c \in membersOf(rmRooms, roomId) :
                        r.out[c] = <<[type |-> "clear-canvas", userId |-> socketId]>>
                /\ \A c \in SocketIds \ membersOf(rmRooms, roomId) : r.out[c] = <<>>

\* a room of two members holds strokes of one of them only, one in history
\* and one in the undo stack: the clear-canvas of the author empties both
\* lists, the clear-canvas of the other member removes nothing, and each is
\* sent to both
C26_Witness ==
    /\ last.op = "event"
    /\ last.outcome = "done"
    /\ \E socketId \in SocketIds, roomId \in RoomIds :
        LET other == SocketIds \ {socketId}
        IN  /\ membersOf(rmRooms, roomId) = SocketIds
            /\ someByUser(historyOf(smRooms, roomId), socketId)
            /\ someByUser(undoStackOf(smRooms, roomId), socketId)
            /\ onClearCanvas(G, socketId, roomId).sm[roomId]
                    = [history |-> <<>>, undoStack |-> <<>>]
            /\ \A c \in other :
                    /\ onClearCanvas(G, c, roomId).sm = smRooms
                    /\ Len(onClearCanvas(G, c, roomId).out[c]) = 1

\* C27: in every room no two strokes of history and undo stack together
\* have the same id
C27_StrokeIdsUnique ==
    \A roomId \in RoomIds :
        LET all == historyOf(smRooms, roomId) \o undoStackOf(smRooms, roomId)
        IN  \A i, j \in 1..Len(all) : all[i].id = all[j].id => i = j

\* the handlers of the four stroke requests run for the sender on the room
C28_requests(socketId, roomId) ==
    {onDraw(G, socketId, roomId, DrawData(id), nextOid, DateNow) : id \in PathIds}
        \cup {onUndo(G, socketId, roomId), onRedo(G, socketId, roomId),
              onClearCanvas(G, socketId, roomId)}

\* C28: a draw, undo, redo or clear-canvas request on a room, accepted or
\* rejected, leaves history, undo stack, existence and members of every
\* other room as they are and sends messages to members of the room only
C28_RoomIsolation ==
    \A socketId \in SocketIds, roomId \in RoomIds :
        \A r \in C28_requests(socketId, roomId) :
            /\ \A other \in RoomIds \ {roomId} :
                /\ other \in DOMAIN r.sm <=> other \in DOMAIN smRooms
                /\ historyOf(r.sm, other) = historyOf(smRooms, other)
                /\ undoStackOf(r.sm, other) = undoStackOf(smRooms, other)
                /\ membersOf(r.rm, other) = membersOf(rmRooms, other)
                /\ r.sio[other] = sioRooms[other]
            /\ \A c \in SocketIds :
                r.out[c] # <<>> => c \in membersOf(rmRooms, roomId)

\* one connection is alone in a room and with the other connection in the
\* other room, both rooms hold strokes, and a draw of each connection on the
\* shared room is accepted and sent
C28_Witness ==
    /\ last.op = "event"
    /\ last.outcome = "done"
    /\ \E roomId \in RoomIds, socketId \in SocketIds :
        /\ membersOf(rmRooms, roomId) = SocketIds
        /\ historyOf(smRooms, roomId) # <<>>
        /\ \A other \in RoomIds \ {roomId} :
            /\ membersOf(rmRooms, other) = {socketId}
            /\ historyOf(smRooms, other) # <<>>
        /\ \A c \in SocketIds :
            \A r \in C28_requests(c, roomId) : r.member

(***************************************************************************)
(* The order of mutation and broadcast (checked under SpecSync).           *)
(***************************************************************************)

\* the gateway and the queues of messages it has sent, each taken by its
\* canvas in the order sent
NextBroadcast ==
    \/ \E socketId \in SocketIds : SyncConnection(socketId)
    \/ \E socketId \in SocketIds, roomId \in SyncRooms : SyncJoinRoom(socketId, roomId)
    \/ \E socketId \in SocketIds, roomId \in SyncRooms, id \in StorePathIds :
            SyncDraw(socketId, roomId, id)
    \/ \E socketId \in SocketIds, roomId \in SyncRooms : SyncUndo(socketId, roomId)
    \/ \E socketId \in SocketIds, roomId \in SyncRooms : SyncRedo(socketId, roomId)
    \/ \E socketId \in SocketIds, roomId \in SyncRooms : SyncClearCanvas(socketId, roomId)
    \/ \E socketId \in SocketIds : SyncDisconnect(socketId)
    \/ \E socketId \in SocketIds : Deliver(socketId, 1)

SpecBroadcast == Init /\ [][NextBroadcast]_vars

\* the messages that a step puts on the connection's queue
C29_sent(c) ==
    IF Len(net'[c]) > Len(net[c])
    THEN {net'[c][k] : k \in (Len(net[c]) + 1)..Len(net'[c])}
    ELSE {}

\* C29: the step that puts a draw or redo message on a queue is the step
\* that puts the message's stroke into the room's history, and the step
\* that puts an undo message on a queue is the step that moves the one
\* stroke of that id from history to the undo stack: when the message is
\* sent the store has changed, and no other handler's step lies in between
C29_MutationWithBroadcast ==
    [][\A c \in SyncClients, roomId \in SyncRooms : \A msg \in C29_sent(c) :
        LET before == historyOf(smRooms, roomId)
            after == historyOf(smRooms', roomId)
            removed == {i \in 1..Len(before) : before[i].oid \notin oidsOf(after)}
        IN  /\ msg.type \in {"draw", "redo"} =>
                /\ \E i \in 1..Len(after) : after[i] = msg.path
                /\ msg.path.oid \notin oidsOf(before)
            /\ msg.type = "undo" =>
                /\ Cardinality(removed) = 1
                /\ \A i \in removed :
                    /\ before[i].id = msg.pathId
                    /\ before[i].oid \in oidsOf(undoStackOf(smRooms', roomId))
      ]_vars

\* the newest message waiting for a canvas is a redo whose stroke is in the
\* room's history, and an undo message is waiting before it
C29_Witness ==
    \E c \in SyncClients, roomId \in SyncRooms :
        /\ Len(net[c]) = 2
        /\ net[c][1].type = "undo"
        /\ net[c][2].type = "redo"
        /\ net[c][2].path.oid \in oidsOf(historyOf(smRooms, roomId))

(***************************************************************************)
(* Registry and store together (checked under Spec).                       *)
(***************************************************************************)
\* C30: after every event of the gateway the registry and the store hold
\* the same room ids, so the store has the room of every request that
\* passes the membership check
C30_RegistryAndStoreAgree ==
    /\ roomsOf(rmRooms) = DOMAIN smRooms
    /\ \A socketId \in SocketIds, roomId \in RoomIds :
            isUserInRoom(rmRooms, socketId, roomId) => roomId \in DOMAIN smRooms

\* a disconnect has just deleted one room from registry and store while the
\* other room, with its member and strokes, is still in both
C30_Witness ==
    /\ last.op = "disconnect"
    /\ \E i \in 1..Len(last.rooms) :
            /\ last.rooms[i] \notin roomsOf(rmRooms)
            /\ last.rooms[i] \notin DOMAIN smRooms
    /\ \E roomId \in roomsOf(rmRooms) :
            /\ roomId \in DOMAIN smRooms
            /\ smRooms[roomId].history # <<>>
            /\ \E socketId \in SocketIds : isUserInRoom(rmRooms, socketId, roomId)

(***************************************************************************)
(* Cursor movement (checked under Spec).                                   *)
(***************************************************************************)
\* C31: the cursor-move handler run for a member of the room changes no
\* history, no undo stack and no membership, and sends one cursor-move with
\* the sender's id and the position to every other member of the room and
\* nothing to the sender or to anyone outside the room
C31_CursorMoveToOthers ==
    \A socketId \in SocketIds, roomId \in RoomIds, position \in Positions,
       isDrawing \in BOOLEAN :
        socketId \in membersOf(rmRooms, roomId) =>
            LET r == onCursorMove(G, socketId, roomId, position, isDrawing)
            IN  /\ r.sm = smRooms
                /\ r.rm = rmRooms
                /\ r.sio = sioRooms
                /\ \A c \in membersOf(rmRooms, roomId) \ {socketId} :
                        r.out[c] = <<[type |-> "cursor-move", userId |-> socketId,
                                      position |-> position,
                                      isDrawing |-> isDrawing]>>
                /\ r.out[socketId] = <<>>
                /\ \A c \in SocketIds \ membersOf(rmRooms, roomId) : r.out[c] = <<>>

\* a cursor-move of a member has just been handled in a room that has both
\* connections as members and strokes in history and undo stack
C31_Witness ==
    /\ last.op = "event"
    /\ last.outcome = "done"
    /\ \E roomId \in RoomIds :
            /\ membersOf(rmRooms, roomId) = SocketIds
            /\ historyOf(smRooms, roomId) # <<>>
            /\ undoStackOf(smRooms, roomId) # <<>>
            /\ \A socketId \in SocketIds, position \in Positions :
                LET out == onCursorMove(G, socketId, roomId, position, TRUE).out
                IN  \A c \in SocketIds \ {socketId} :
                        Len(out[c]) = 1 /\ out[c][1].position = position

(***************************************************************************)
(* The registry's queries (checked under SpecRegistry).                    *)
(***************************************************************************)
C32_queries ==
    {"isUserInRoom", "getRoomUserCount", "getRoomUsers", "getRoomInfo",
     "getRoomCount", "getTotalUserCount"}

\* C32: a query leaves the registry as it is, creating no room; for a room
\* the registry does not hold isUserInRoom returns false, getRoomUserCount
\* 0, getRoomUsers an empty list and getRoomInfo null, and isUserInRoom
\* returns false for a connection that is not in the room; otherwise the
\* queries return what the registry holds
C32_QueriesChangeNothing ==
    [][last'.op \in C32_queries =>
        LET ret == last'.ret
            known == last'.roomId \in roomsOf(rmRooms)
            members == membersOf(rmRooms, last'.roomId)
        IN  /\ rmRooms' = rmRooms
            /\ last'.op = "isUserInRoom" =>
                    ret = (known /\ last'.socketId \in members)
            /\ last'.op = "getRoomUserCount" =>
                    ret = IF known THEN Cardinality(members) ELSE 0
            /\ last'.op = "getRoomUsers" =>
                    ret = IF known THEN members ELSE {}
            /\ last'.op = "getRoomInfo" =>
                    IF known
                    THEN /\ ret # null
                         /\ ret.roomId = last'.roomId
                         /\ ret.users = members
                         /\ ret.userCount = Cardinality(members)
                    ELSE ret = null
            /\ last'.op = "getRoomCount" =>
                    ret = Cardinality(roomsOf(rmRooms))
            /\ last'.op = "getTotalUserCount" =>
                    ret = Cardinality({<<s, r>> \in SocketIds \X RoomIds :
                                            s \in membersOf(rmRooms, r)})
      ]_vars

\* getRoomInfo has just returned null for a room the registry does not
\* hold, while it holds the other room, and the room is still not there
C32_Witness ==
    /\ last.op = "getRoomInfo"
    /\ last.ret = null
    /\ last.roomId \notin roomsOf(rmRooms)
    /\ rmRooms # <<>>

(***************************************************************************)
(* Authors and their strokes (checked under Spec).                         *)
(***************************************************************************)
\* C33: in every state the gateway reaches, the author of each stroke in a
\* room's history or undo stack is a member of the room
C33_AuthorsAreMembers ==
    \A roomId \in DOMAIN smRooms :
        LET all == smRooms[roomId].history \o smRooms[roomId].undoStack
        IN  \A i \in 1..Len(all) : all[i].userId \in membersOf(rmRooms, roomId)

\* a connection has just disconnected from the one room it was in; of the
\* two strokes drawn only one is left, a stroke of the member who stays
C33_Witness ==
    /\ last.op = "disconnect"
    /\ Len(last.rooms) = 1
    /\ \E roomId \in RoomIds :
            /\ roomId = last.rooms[1]
            /\ membersOf(rmRooms, roomId) = SocketIds \ {last.socketId}
            /\ Len(historyOf(smRooms, roomId)) = 1
            /\ undoStackOf(smRooms, roomId) = <<>>
            /\ DOMAIN smRooms = {roomId}
            /\ nextOid = 3

\* the strokes of the author in the list, in the list's order
C34_strokesOf(arr, userId) == SelectSeq(arr, LAMBDA p : p.userId = userId)

\* C34: the strokes of an author in a room's history, in their order, stay
\* as they are when another connection draws, undoes, redoes, clears, joins
\* or disconnects, and when anyone sends a request on another room; the
\* author's own draw and redo only add to them; so a stroke leaves history
\* only by its author's undo, clear-canvas or disconnect
C34_OnlyAuthorRemovesStroke ==
    LET mine(sm, roomId, author) == C34_strokesOf(historyOf(sm, roomId), author)
        kept(r, roomId, author) ==
            mine(r.sm, roomId, author) = mine(smRooms, roomId, author)
        grown(r, roomId, author) ==
            SubSeq(mine(r.sm, roomId, author), 1, Len(mine(smRooms, roomId, author)))
                = mine(smRooms, roomId, author)
    IN  /\ \A socketId \in SocketIds, roomId \in RoomIds :
            LET redone == onRedo(G, socketId, roomId)
                undone == onUndo(G, socketId, roomId)
                cleared == onClearCanvas(G, socketId, roomId)
                joined == onJoinRoom(G, socketId, roomId)
            IN  /\ \A id \in PathIds :
                    LET drawn == onDraw(G, socketId, roomId, DrawData(id),
                                        nextOid, DateNow)
                    IN  /\ grown(drawn, roomId, socketId)
                        /\ \A room \in RoomIds, author \in SocketIds :
                            room # roomId \/ author # socketId =>
                                kept(drawn, room, author)
                /\ grown(redone, roomId, socketId)
                /\ \A room \in RoomIds, author \in SocketIds :
                    /\ kept(joined, room, author)
                    /\ room # roomId \/ author # socketId =>
                        /\ kept(redone, room, author)
                        /\ kept(undone, room, author)
                        /\ kept(cleared, room, author)
        /\ \A socketId \in SocketIds :
            LET left == onDisconnect(G, socketId)
            IN  \A roomId \in RoomIds, author \in SocketIds \ {socketId} :
                    kept(left, roomId, author)

\* a room of two members holds a stroke of each in history, the younger one
\* by the member whose undo and clear-canvas take only that one away
C34_Witness ==
    /\ last.op = "event"
    /\ last.outcome = "done"
    /\ \E roomId \in RoomIds, author \in SocketIds, socketId \in SocketIds :
        LET h == historyOf(smRooms, roomId)
        IN  /\ membersOf(rmRooms, roomId) = {author, socketId}
            /\ Len(h) = 2
            /\ h[1].userId = author
            /\ h[2].userId = socketId
            /\ author # socketId
            /\ historyOf(onUndo(G, socketId, roomId).sm, roomId) = <<h[1]>>
            /\ historyOf(onClearCanvas(G, socketId, roomId).sm, roomId) = <<h[1]>>

(***************************************************************************)
(* Gateway, in-order network and clients that join one room and draw       *)
(* strokes of pairwise distinct ids.                                       *)
(***************************************************************************)
\* generatePathId: an id no stroke drawn before has
generatePathId == "p" \o ToString(nextOid)

NextFifo ==
    \/ \E socketId \in SocketIds : SyncConnection(socketId)
    \/ \E socketId \in SocketIds, roomId \in SyncRooms : SyncJoinRoom(socketId, roomId)
    \/ \E socketId \in SocketIds, roomId \in SyncRooms :
            SyncDraw(socketId, roomId, generatePathId)
    \/ \E socketId \in SocketIds, roomId \in SyncRooms : SyncUndo(socketId, roomId)
    \/ \E socketId \in SocketIds, roomId \in SyncRooms : SyncRedo(socketId, roomId)
    \/ \E socketId \in SocketIds, roomId \in SyncRooms : SyncClearCanvas(socketId, roomId)
    \/ \E socketId \in SocketIds : SyncDisconnect(socketId)
    \/ \E socketId \in SocketIds : Deliver(socketId, 1)

SpecFifo == Init /\ [][NextFifo]_vars

\* C35: with messages delivered in the order sent and strokes of pairwise
\* distinct ids, once no message is under way the canvas of each connected
\* member holds the strokes of the server's history of its room, in the
\* same order
C35_FifoCanvasesConverge ==
    \A socketId \in SyncClients, roomId \in SyncRooms :
        (/\ conn[socketId] = "connected"
         /\ socketId \in membersOf(rmRooms, roomId)
         /\ net[socketId] = <<>>)
            => clientHistory[socketId] = historyOf(smRooms, roomId)

\* every message has been delivered and the canvas shows the two strokes,
\* of different authors, that the server's history holds
C35_Witness ==
    \E socketId \in SyncClients, roomId \in SyncRooms :
        /\ conn[socketId] = "connected"
        /\ net[socketId] = <<>>
        /\ Len(clientHistory[socketId]) = 2
        /\ clientHistory[socketId][1].userId # clientHistory[socketId][2].userId
        /\ clientHistory[socketId] = historyOf(smRooms, roomId)

\* C36: once no message is under way, the canUndo and canRedo state of the
\* App of a connected member is what the store answers canUserUndo and
\* canUserRedo for that connection
C36_FlagsFollowOwnStrokes ==
    \A socketId \in SyncClients, roomId \in SyncRooms :
        (/\ conn[socketId] = "connected"
         /\ socketId \in membersOf(rmRooms, roomId)
         /\ net[socketId] = <<>>)
            => /\ appFlags[socketId].canUndo = canUserUndo(smRooms, roomId, socketId)
               /\ appFlags[socketId].canRedo = canUserRedo(smRooms, roomId, socketId)

(***************************************************************************)
(* StateManager, the variant with global undo and redo, run in step with   *)
(* the per-user variant on rooms whose strokes all have one author.        *)
(***************************************************************************)
globalCreateRoom(sm, roomId) ==
    IF roomId \notin DOMAIN sm
    THEN mapSet(sm, roomId, [history |-> <<>>, undoStack |-> <<>>])
    ELSE sm

globalAddPath(sm, roomId, path, now) ==
    IF roomId \notin DOMAIN sm
    THEN [rooms |-> sm, ret |-> FALSE]
    ELSE LET room == sm[roomId]
             stamped == IF path.timestamp = 0
                        THEN [path EXCEPT !.timestamp = now] ELSE path
         IN  [rooms |-> mapSet(sm, roomId,
                               [history |-> Append(room.history, stamped),
                                undoStack |-> <<>>]),
              ret |-> TRUE]

\* undo(roomId): room.history.pop(), pushed on the undo stack
globalUndo(sm, roomId) ==
    IF roomId \notin DOMAIN sm \/ Len(sm[roomId].history) = 0
    THEN [rooms |-> sm, ret |-> null]
    ELSE LET room == sm[roomId]
             path == room.history[Len(room.history)]
         IN  [rooms |-> mapSet(sm, roomId,
                               [history |-> SubSeq(room.history, 1,
                                                   Len(room.history) - 1),
                                undoStack |-> Append(room.undoStack, path)]),
              ret |-> path]

globalRedo_takesOldest(sm, roomId) ==
    IF roomId \notin DOMAIN sm \/ Len(sm[roomId].undoStack) = 0
    THEN [rooms |-> sm, ret |-> null]
    ELSE LET room == sm[roomId]
             path == room.undoStack[1]
         IN  [rooms |-> mapSet(sm, roomId,
                               [history |-> Append(room.history, path),
                                undoStack |-> Tail(room.undoStack)]),
              ret |-> path]

\* redo(roomId): room.undoStack.pop(), pushed on history
globalRedo(sm, roomId) ==
    IF roomId \notin DOMAIN sm \/ Len(sm[roomId].undoStack) = 0
    THEN [rooms |-> sm, ret |-> null]
    ELSE LET room == sm[roomId]
             path == room.undoStack[Len(room.undoStack)]
         IN  [rooms |-> mapSet(sm, roomId,
                               [history |-> Append(room.history, path),
                                undoStack |-> SubSeq(room.undoStack, 1,
                                                     Len(room.undoStack) - 1)]),
              ret |-> path]

\* every stroke the per-user store holds for the room is by the author
soleAuthor(roomId, userId) ==
    \A other \in SocketIds \ {userId} :
        /\ ~someByUser(historyOf(smRooms, roomId), other)
        /\ ~someByUser(undoStackOf(smRooms, roomId), other)

variantVars == <<rmRooms, sioRooms, conn, net, clientHistory, livePaths, drawSeen,
                 appFlags, held>>

VarCreateRoom(roomId) ==
    /\ smRooms' = smCreateRoom(smRooms, roomId)
    /\ globalRooms' = globalCreateRoom(globalRooms, roomId)
    /\ last' = [op |-> "createRoom", roomId |-> roomId]
    /\ UNCHANGED <<variantVars, nextOid>>

VarAddPath(roomId, id, userId, timestamp, now) ==
    /\ nextOid <= MaxStorePaths
    /\ soleAuthor(roomId, userId)
    /\ LET path == [oid |-> nextOid, id |-> id, userId |-> userId,
                    timestamp |-> timestamp]
           r == addPath(smRooms, roomId, path, now)
           g == globalAddPath(globalRooms, roomId, path, now)
       IN  /\ smRooms' = r.rooms
           /\ globalRooms' = g.rooms
           /\ nextOid' = IF r.ret THEN nextOid + 1 ELSE nextOid
           /\ last' = [op |-> "addPath", roomId |-> roomId, userId |-> userId,
                       ret |-> r.ret, globalRet |-> g.ret]
    /\ UNCHANGED variantVars

VarUndo(roomId, userId) ==
    /\ soleAuthor(roomId, userId)
    /\ LET r == undo(smRooms, roomId, userId)
           g == globalUndo(globalRooms, roomId)
       IN  /\ smRooms' = r.rooms
           /\ globalRooms' = g.rooms
           /\ last' = [op |-> "undo", roomId |-> roomId, userId |-> userId,
                       ret |-> r.ret, globalRet |-> g.ret]
    /\ UNCHANGED <<variantVars, nextOid>>

VarRedo(roomId, userId) ==
    /\ soleAuthor(roomId, userId)
    /\ LET r == redo(smRooms, roomId, userId)
           g == globalRedo(globalRooms, roomId)
       IN  /\ smRooms' = r.rooms
           /\ globalRooms' = g.rooms
           /\ last' = [op |-> "redo", roomId |-> roomId, userId |-> userId,
                       ret |-> r.ret, globalRet |-> g.ret]
    /\ UNCHANGED <<variantVars, nextOid>>

\* undo and redo read no timestamp
NextVariants ==
    \/ \E roomId \in StoreRooms : VarCreateRoom(roomId)
    \/ \E roomId \in RoomIds, id \in StorePathIds, userId \in SocketIds,
          timestamp \in {0, 1} :
            VarAddPath(roomId, id, userId, timestamp, 1)
    \/ \E roomId \in RoomIds, userId \in SocketIds : VarUndo(roomId, userId)
    \/ \E roomId \in RoomIds, userId \in SocketIds : VarRedo(roomId, userId)

SpecVariants == Init /\ [][NextVariants]_vars

C38_UndoRedoRoundTrip ==
    \A roomId \in RoomIds, userId \in SocketIds :
        LET u == undo(smRooms, roomId, userId)
            r == redo(u.rooms, roomId, userId)
            before == historyOf(smRooms, roomId)
            k == posOf(before, u.ret.oid)
        IN  u.ret # null =>
                /\ r.ret = u.ret
                /\ undoStackOf(r.rooms, roomId) = undoStackOf(smRooms, roomId)
                /\ historyOf(r.rooms, roomId) = Append(without(before, k), u.ret)
                /\ (historyOf(r.rooms, roomId) = before) <=> (k = Len(before))

\* the author of the first of two strokes in history has a stroke in the
\* undo stack as well: its undo followed by redo moves its stroke in
\* history behind the other author's
C38_Witness ==
    \E roomId \in StoreRooms, userId \in SocketIds :
        LET before == historyOf(smRooms, roomId)
            u == undo(smRooms, roomId, userId)
        IN  /\ Len(before) = 2
            /\ before[1].userId = userId
            /\ before[2].userId # userId
            /\ someByUser(undoStackOf(smRooms, roomId), userId)
            /\ historyOf(redo(u.rooms, roomId, userId).rooms, roomId)
                    = <<before[2], before[1]>>

====
